---- MODULE Spec2Model ----
(***************************************************************************)
(* Model of the SmartFactoryAI orchestration core:                         *)
(*   src/src/core/ai_control_system.py  (AIControlSystem)                  *)
(*   src/src/core/file_tracker.py       (FileTracker)                      *)
(*   src/src/core/task_analyzer.py      (TaskAnalyzer)                     *)
(* Three threads are modelled: the pika consumer thread that runs the      *)
(* ingestion callbacks, the global task worker (dispatcher) and the ping   *)
(* status worker (heartbeat).                                              *)
(***************************************************************************)
EXTENDS Integers, Sequences, FiniteSets, TLC

\* ---------------------------------------------------------------- bounds
\* number of task-start messages the consumer thread ingests
MaxReq == 2
\* number of order-context messages the consumer thread ingests
MaxOrders == 2
\* number of direct add_file calls in the ledger specification, in the
\* specification with readers and in the one with restarts
MaxAdds == 6
MaxReadAdds == 5
MaxRestartAdds == 5
\* chunks the buffer of the order file object holds before it is flushed
FlushChunks == 4
MaxCycles == 2
MaxUpdates == 2
MaxStageReq == 2
MaxHandoffReq == 2
MaxHandoffOrders == 1
MaxIntakeReq == 2
MaxIntakeOrders == 1
\* task-start and order-context messages ingested in the fair specification
MaxLiveReq == 2
MaxLiveOrders == 1

\* ------------------------------------------------------ program constants
MAX_TRACKED_FILES == 4

\* keys of task_statuses / FileTracker.data / the analyzers of task_analysis_map
TaskTypes == {"CASE", "BOX", "COVER", "FORDING", "FINAL"}

\* a START that is a JSON array or object: json.loads makes it a list or a
\* dict, a value without hash
Unhashable == "<unhashable>"

\* START values carried by the task-start messages that are enumerated
RequestStarts == {"CASE", "SHIP", Unhashable}

\* START values of the intake specification: a key of task_analysis_map, the
\* name FOLDING, and a message that has no START key
IntakeStarts == {"CASE", "FOLDING", "<absent>"}

\* task types passed to add_file in the ledger specification
LedgerTypes == {"CASE", "COVER", "SHIP"}

\* task types passed to add_file in the specification with restarts
RestartTypes == {"CASE", "SHIP"}

\* required_fields of process_web_message, in the order they are checked
required_fields == <<"ORDER_NO", "ITEM_CD", "ITEM_NM", "ITEM_CLASS", "BOM", "RECIPE">>

\* ORDER_NO values of the enumerated order-context messages
OrderNos == {"ORD1", "ORD2"}

\* ---------------------------------------------------------------- helpers
Range(s) == {s[i] : i \in 1..Len(s)}

Min(a, b) == IF a < b THEN a ELSE b

RECURSIVE Reverse(_)
Reverse(s) == IF s = <<>> THEN <<>> ELSE Append(Reverse(Tail(s)), Head(s))

\* s[:n] of a Python list
Take(s, n) == SubSeq(s, 1, Min(n, Len(s)))

\* A Python dict is written as the sequence of its <<key, value>> items, in
\* insertion order; its keys and the mapping it stands for:
Keys(items) == {items[i][1] : i \in 1..Len(items)}

AsDoc(items) ==
    [f \in Keys(items) |-> (CHOOSE it \in Range(items) : it[1] = f)[2]]

\* the empty order context {} that _ensure_order_data_file_exists writes
EmptyDoc == [f \in {} |-> ""]

\* the items of an order-context message that carries the required fields,
\* and of one that carries the key LINE after them
OrderItems(no) == [i \in 1..Len(required_fields) |-> <<required_fields[i], no>>]

OrderItemsLine(no) == OrderItems(no) \o <<(<<"LINE", no>>)>>

\* a JSON number, true, false or null: a value len() raises TypeError on
NoLen == "<no len>"

\* the items of a message that carries the required fields, the one named
\* field with a value that has no len()
OrderItemsNoLen(no, field) ==
    [i \in 1..Len(required_fields) |->
        <<required_fields[i], IF required_fields[i] = field THEN NoLen ELSE no>>]

\* a valid order context as a mapping: every required field present
OrderDoc(no) == AsDoc(OrderItems(no))

\* variant of JsonDump: the item RECIPE is not written
JsonDumpNoRecipe(items) ==
    <<(<<"{", "">>)>>
    \o SelectSeq(items, LAMBDA it : it[1] # "RECIPE")
    \o <<(<<"}", "">>)>>

\* json.dump(message_data, json_file, indent=4): the chunks written to the
\* file, one per item of the dict, every key, in the order of the dict
JsonDump(items) == <<(<<"{", "">>)>> \o items \o <<(<<"}", "">>)>>

\* json.load(json_file) on the bytes currently in the file: a document when
\* the text is complete, JSONDecodeError on an empty or truncated text
JsonLoad(content) ==
    IF /\ Len(content) >= 2
       /\ content[1][1] = "{"
       /\ content[Len(content)][1] = "}"
    THEN [ok |-> TRUE,
          doc |-> [f \in {content[i][1] : i \in 2..(Len(content) - 1)} |->
                     (CHOOSE c \in Range(content) : c[1] = f)[2]]]
    ELSE [ok |-> FALSE, doc |-> EmptyDoc]

\* dict.get(key, default)
DictGet(d, key, default) == IF key \in DOMAIN d THEN d[key] ELSE default

NoRequest == [id |-> 0, START |-> "NONE"]
NoOutcome == [status |-> "NONE"]
NoResult == [NAME |-> "NONE", RESULT |-> "NONE", ORDER_NO |-> "NONE",
             CONFIDENCE |-> "NONE", DETAILS |-> "NONE"]
NoStatus == [status |-> "NONE", index |-> 0]
NoDelivery == [method |-> "none", requeue |-> FALSE]

\* ch.basic_ack(delivery_tag) and ch.basic_nack(delivery_tag, requeue)
basic_ack == [method |-> "basic_ack", requeue |-> FALSE]
basic_nack(requeue) == [method |-> "basic_nack", requeue |-> requeue]
NoAdd == [step |-> "idle", task_type |-> "NONE"]
NoHeld == [kind |-> "none", lists |-> [t \in {} |-> <<>>], todo |-> <<>>, pos |-> 0]
NoLists == [t \in {} |-> <<>>]

\* A JSON array (or a JSON string) that holds the five task type names, and
\* FileTracker.data once _load_data has taken it over.  The key "<list>"
\* says that the value is the list of its other keys and no dict: "in"
\* finds the five names, self.data[task_type] raises TypeError, json.dump
\* writes the array back.
NamesList == [t \in TaskTypes \cup {"<list>"} |-> <<>>]
IsDict(d) == "<list>" \notin DOMAIN d

\* last_processed_files.json: a JSON object with its lists or a JSON value
\* in which "in" finds the five names, no file at all, or a content
\* _load_data raises on (empty, cut short, not JSON: json.load raises; a
\* JSON value that is no object and lacks one of the five names: the
\* assignment loaded_data[key] = [] of the key loop raises)
Stored(d) == [kind |-> IF IsDict(d) THEN "object" ELSE "array", lists |-> d]
NoFile == [kind |-> "missing", lists |-> NoLists]
Unreadable == [kind |-> "unreadable", lists |-> NoLists]
NoUpdate == [step |-> "idle", task_type |-> "NONE", status |-> "NONE",
             before |-> [status |-> "NONE", index |-> 0]]
Threads == {"worker", "ping", "consumer", "web"}
ThreadStart == [worker |-> "get", ping |-> "sleep", consumer |-> "idle", web |-> "idle"]
NoFolding == [ran |-> FALSE, status |-> "NONE", captured |-> FALSE, value |-> "None"]
NoRead == [kind |-> "none", doc |-> EmptyDoc, old |-> EmptyDoc, new |-> EmptyDoc]

VARIABLES
    \* ---- program state
    global_processing_queue, \* Queue(): sequence of task requests
    global_task_lock,        \* "free" or the holder
    is_processing,           \* AIControlSystem.is_processing
    status_lock,             \* "free", "worker" or "ping"
    file_lock,               \* "free", "worker" or "consumer"
    task_statuses,           \* task type -> [status, index]
    order_data_file,         \* bytes of order_data.json as a chunk sequence
    data,                    \* FileTracker.data
    tracker_file,            \* last_processed_files.json: Stored(d), NoFile or Unreadable
    saveFailed,              \* did the last _save_data fail to write the file
    \* ---- the worker's position and locals
    wpc,                     \* position of global_task_worker
    task_request,            \* the request dequeued by the worker
    order_data,              \* process_task_analysis: order_data
    analysis_result,         \* process_task_analysis: analysis_result
    result,                  \* process_task_analysis: result
    \* ---- the consumer's position while it writes the order file
    cpc,
    pending,                 \* chunks still buffered by the open file
    incoming,                \* callback of a Node-RED queue: task_request
    \* ---- the ping worker's position and the loop over task_statuses.items()
    ppc,
    pingQueue,               \* task types the for loop has still to visit
    \* ---- observation (history) variables
    nTasks,                  \* task-start messages ingested
    nOrders,                 \* order-context messages ingested
    nAdds,                   \* add_file calls made
    analyzing,               \* analyzer invocations in progress
    dispatched,              \* ids of requests in the order analysis started
    cameraRead,              \* the analyzer's own load of the order file
    snapshotRead,            \* the dispatcher's load of the order file
    committed,               \* the last order document written completely
    accepted,                \* the last order update the callback does not reject
    recorded,                \* task type -> ids recorded successfully, oldest first
    statusCalls,             \* task type -> number of update_task_status calls
    raised,                  \* did the analyzer raise for the current request
    sinkFailed,              \* did the delivery of the current result fail
    statusAtPublish,         \* task_statuses entry when delivery was attempted
    attempts,                \* deliveries attempted for the current request
    sink,                    \* the TaskResult handed to the Result Sink for the current request
    uploads,                 \* upload_file calls made for the current request
    delivery,                \* basic_ack / basic_nack given to the message last consumed
    pingLog,                 \* posts made to PING_API in the current cycle
    cycles,                  \* ping cycles completed
    addWarning,              \* the warning logged by the last add_file call
    \* ---- FileTracker and update_task_status statement by statement
    tracker_lock,            \* FileTracker.lock: "free" or the thread holding it
    apc,                     \* add_file: between insert(0, ...) and the slice
    held,                    \* what a caller of get_files holds and how far jsonify has read it
    seen,                    \* the records jsonify has read, list by list
    upc,                     \* update_task_status: the statement reached
    tpc,                     \* FileTracker.__init__: before or after _load_data
    \* ---- the locks on their own
    processing_lock,         \* AIControlSystem.processing_lock: "free" or the holder
    lpc,                     \* each thread's position between its lock operations
    \* ---- TaskAnalyzer
    folding_value,           \* TaskAnalyzer.__folding_value: "None" or "NG"
    lastFolding,             \* how the last folding_task_analysis call ended
    \* ---- Queue
    unfinished_tasks         \* Queue.unfinished_tasks: put adds 1, task_done takes 1

vars == <<global_processing_queue, global_task_lock, is_processing, status_lock,
          file_lock, task_statuses, order_data_file, data, tracker_file, saveFailed,
          wpc, task_request, order_data, analysis_result, result, cpc, pending,
          incoming,
          ppc, nTasks, nOrders, nAdds, analyzing, dispatched, cameraRead,
          snapshotRead, committed, accepted, recorded, statusCalls, raised, sinkFailed, statusAtPublish,
          attempts, sink, uploads, delivery, pingQueue, pingLog, cycles,
          addWarning, tracker_lock, apc, held, seen, upc, tpc,
          processing_lock, lpc, folding_value, lastFolding, unfinished_tasks>>

workerLocals == <<task_request, order_data, analysis_result, result>>
workerHist == <<analyzing, dispatched, cameraRead, snapshotRead, raised, sinkFailed,
                statusAtPublish, attempts, sink, uploads>>
ledgerVars == <<data, tracker_file, saveFailed, recorded, nAdds, addWarning>>
consumerVars == <<cpc, pending, incoming, nTasks, nOrders, committed, accepted,
                  delivery>>
pingVars == <<pingQueue, pingLog, cycles>>
pingState == <<ppc, pingVars>>
fineVars == <<tracker_lock, apc, held, seen, upc, tpc>>
lockVars == <<processing_lock, lpc>>
handoffVars == <<folding_value, lastFolding>>
queueVars == <<unfinished_tasks>>
moreVars == <<lockVars, handoffVars, queueVars>>
statusVars == <<task_statuses, statusCalls>>

\* ------------------------------------------------------------------ Init
\* AIControlSystem.__init__ and FileTracker.__init__ with no stored files
InitRest ==
    /\ global_processing_queue = <<>>
    /\ global_task_lock = "free"
    /\ is_processing = FALSE
    /\ status_lock = "free"
    /\ file_lock = "free"
    /\ task_statuses = [t \in TaskTypes |-> [status |-> "IDLE", index |-> 0]]
    /\ order_data_file = JsonDump(<<>>)
    /\ data = [t \in TaskTypes |-> <<>>]
    /\ saveFailed = FALSE
    /\ wpc = "get"
    /\ task_request = NoRequest
    /\ order_data = EmptyDoc
    /\ analysis_result = NoOutcome
    /\ result = NoResult
    /\ cpc = "idle"
    /\ pending = <<>>
    /\ incoming = NoRequest
    /\ ppc = "sleep"
    /\ nTasks = 0
    /\ nOrders = 0
    /\ nAdds = 0
    /\ analyzing = 0
    /\ dispatched = <<>>
    /\ cameraRead = NoRead
    /\ snapshotRead = NoRead
    /\ committed = EmptyDoc
    /\ accepted = EmptyDoc
    /\ recorded = [t \in TaskTypes |-> <<>>]
    /\ statusCalls = [t \in TaskTypes |-> 0]
    /\ raised = FALSE
    /\ sinkFailed = FALSE
    /\ statusAtPublish = NoStatus
    /\ attempts = 0
    /\ sink = NoResult
    /\ uploads = 0
    /\ delivery = NoDelivery
    /\ pingQueue = <<>>
    /\ pingLog = <<>>
    /\ cycles = 0
    /\ addWarning = "none"
    /\ tracker_lock = "free"
    /\ apc = NoAdd
    /\ held = NoHeld
    /\ seen = NoLists
    /\ upc = NoUpdate
    /\ processing_lock = "free"
    /\ lpc = [th \in Threads |-> ThreadStart[th]]
    /\ folding_value = "None"
    /\ lastFolding = NoFolding
    /\ unfinished_tasks = 0

\* the state after construction: the tracker file did not exist and
\* FileTracker.__init__ has written the empty lists to it
Init ==
    /\ tracker_file = Stored([t \in TaskTypes |-> <<>>])
    /\ tpc = "ready"
    /\ InitRest

\* ------------------------------------------------- operations of the code
\* variant of TaskName: no default for a request without START
TaskNameNoDefault(req) == req.START

\* task_request.get("START", "UNKNOWN_TASK")
TaskName(req) == IF req.START = "<absent>" THEN "UNKNOWN_TASK" ELSE req.START

\* variant of QueueGet: the newest item is handed out first (LIFO)
QueueGetLifo(q) == [item |-> q[Len(q)], rest |-> SubSeq(q, 1, Len(q) - 1)]

\* Queue.get(): the item handed to the worker and the queue left behind
QueueGet(q) == [item |-> Head(q), rest |-> Tail(q)]

\* Queue.put(item)
QueuePut(q, item) == Append(q, item)

\* variant of update_task_status: an entry is created for a type that has none
update_task_status_add_key(ts, task_type, status) ==
    [t \in DOMAIN ts \cup {task_type} |->
        IF t = task_type
        THEN [status |-> status,
              index |-> IF t \in DOMAIN ts THEN ts[t].index + 1 ELSE 1]
        ELSE ts[t]]

\* variant of update_task_status: the other task types go back to IDLE
update_task_status_resets_others(ts, task_type, status) ==
    IF task_type \in DOMAIN ts
    THEN [t \in DOMAIN ts |->
            IF t = task_type THEN [status |-> status, index |-> ts[t].index + 1]
            ELSE [status |-> "IDLE", index |-> ts[t].index]]
    ELSE ts

\* variant of update_task_status: the index is left as it is
update_task_status_no_increment(ts, task_type, status) ==
    IF task_type \in DOMAIN ts
    THEN [ts EXCEPT ![task_type] = [status |-> status, index |-> @.index]]
    ELSE ts

\* update_task_status: the new task_statuses
update_task_status(ts, task_type, status) ==
    IF task_type \in DOMAIN ts
    THEN [ts EXCEPT ![task_type] = [status |-> status, index |-> @.index + 1]]
    ELSE ts

\* update_task_status: "task_type in self.task_statuses" hashes task_type
\* and raises TypeError for a list or a dict; the with block releases
\* status_lock on the way out
UpdateRaises(task_type) == task_type = Unhashable

\* the count of update_task_status calls made for a key of task_statuses
CountCall(calls, task_type) ==
    IF task_type \in DOMAIN calls
    THEN [calls EXCEPT ![task_type] = @ + 1]
    ELSE calls

\* get_current_order_data, evaluated on the bytes of the file
get_current_order_data(content) ==
    IF Len(content) > 0
    THEN IF JsonLoad(content).ok THEN JsonLoad(content).doc ELSE EmptyDoc
    ELSE EmptyDoc

\* variant of UnknownOutcome: the lambda returns no details
UnknownOutcomeNoDetails == [status |-> "ERROR"]

\* the entry "unknown_task" of task_analysis_map
UnknownOutcome == [status |-> "ERROR", details |-> "Unknown task"]

\* The dictionaries the analyzers of TaskAnalyzer return (the key task_name,
\* which process_task_analysis never reads, is left out).  A saved frame is
\* the path "frame"; a confidence that is measured from the frame is
\* MeasuredConfidence.
MeasuredConfidence == "30.0%"

Outcome(status, confidence, details) ==
    [status |-> status, confidence |-> confidence, details |-> details]

WithFile(res, path) ==
    [f \in DOMAIN res \cup {"saved_file_path"} |->
        IF f = "saved_file_path" THEN path ELSE res[f]]

\* case_task_analysis: no camera, or an exception before a match (NG, no
\* file); the QR text matches and the frame is saved; the timeout passes and
\* the last frame is saved; save_frame raises after the match set OK
case_task_analysis ==
    {Outcome("NG", "0%", "Q002"),
     WithFile(Outcome("OK", "95%", "OK"), "frame"),
     WithFile(Outcome("NG", "0%", "Q002"), "frame"),
     Outcome("OK", "95%", "Q002")}

\* box_task_analysis: no camera or no frame; the frame is saved and one of
\* the checks fails (an exception after save_frame leaves Q014); all pass
box_task_analysis ==
    {Outcome("NG", "0%", "Q014"),
     WithFile(Outcome("OK", "95%", "OK"), "frame")}
    \cup {WithFile(Outcome("NG", "0%", q), "frame") :
             q \in {"Q014", "Q012", "Q013", "Q011"}}

\* cover_task_analysis: saved_file_path starts as ""; no camera; no frame;
\* an exception before or after save_frame; coverage under the threshold;
\* the colour found fits the order; it does not fit (Q021)
cover_task_analysis ==
    {WithFile(Outcome("NG", "0%", "Failed to initialize camera 3"), ""),
     WithFile(Outcome("NG", "0%", "Failed to capture frame"), ""),
     WithFile(Outcome("NG", "0%", "Error during cover color analysis"), ""),
     WithFile(Outcome("NG", "0%", "Error during cover color analysis"), "frame"),
     WithFile(Outcome("NG", "0%", "Q022"), "frame"),
     WithFile(Outcome("OK", MeasuredConfidence, "OK"), "frame"),
     WithFile(Outcome("NG", MeasuredConfidence, "Q021"), "frame")}

\* what an analyzer returns when _init_camera gives no camera
NoCameraOutcome(task_name) ==
    CASE task_name = "CASE" -> Outcome("NG", "0%", "Q002")
      [] task_name = "BOX" -> Outcome("NG", "0%", "Q014")
      [] task_name = "COVER" ->
             WithFile(Outcome("NG", "0%", "Failed to initialize camera 3"), "")
      [] task_name = "FORDING" -> Outcome("NG", "0%", "Q034")
      [] task_name = "FINAL" -> Outcome("NG", "0%", "Failed to initialize camera 1")

\* the dictionaries the analyzer task_analysis_map gives for a name returns
AnalyzerOutcomes(task_name) ==
    CASE task_name = "CASE" -> case_task_analysis
      [] task_name = "BOX" -> box_task_analysis
      [] task_name = "COVER" -> cover_task_analysis
      [] OTHER -> {}

\* does task_analysis_map route the name to an analyzer of TaskAnalyzer
HasAnalyzer(task_name) == task_name \in TaskTypes

\* "saved_file_path" in analysis_result and analysis_result["saved_file_path"]
HasSavedFile(res) == DictGet(res, "saved_file_path", "") # ""

\* variant of BuildResult: RESULT carries the status name set in the registry
BuildResultStatusName(task_name, res, od) ==
    [NAME |-> task_name,
     RESULT |-> IF DictGet(res, "status", "ERROR") = "OK" THEN "COMPLETED" ELSE "ERROR",
     ORDER_NO |-> DictGet(od, "ORDER_NO", "UNKNOWN"),
     CONFIDENCE |-> DictGet(res, "confidence", "0%"),
     DETAILS |-> DictGet(res, "details", "No details available")]

\* the result dictionary built from analysis_result and order_data
BuildResult(task_name, res, od) ==
    [NAME |-> task_name,
     RESULT |-> DictGet(res, "status",
                        IF DictGet(res, "status", "None") = "COMPLETED"
                        THEN "OK" ELSE "ERROR"),
     ORDER_NO |-> DictGet(od, "ORDER_NO", "UNKNOWN"),
     CONFIDENCE |-> DictGet(res, "confidence", "0%"),
     DETAILS |-> DictGet(res, "details", "No details available")]

\* the result dictionary returned by the except branch of process_task_analysis
ErrorResult(task_name) ==
    [NAME |-> task_name, RESULT |-> "ERROR", ORDER_NO |-> "UNKNOWN",
     CONFIDENCE |-> "0%", DETAILS |-> "Error"]

\* variant of TerminalStatus: an NG result also counts as completed
TerminalStatusNgCompleted(res) ==
    IF res.RESULT \in {"OK", "NG"} THEN "COMPLETED" ELSE "ERROR"

\* variant of TerminalStatus: a result other than OK resets the type to IDLE
TerminalStatusIdle(res) == IF res.RESULT = "OK" THEN "COMPLETED" ELSE "IDLE"

\* the status process_task_analysis sets after the result is built
TerminalStatus(res) == IF res.RESULT = "OK" THEN "COMPLETED" ELSE "ERROR"

\* variant of AddFileRefused: a path that does not exist is accepted
AddFileRefusedUnknownOnly(d, task_type, exists) == task_type \notin DOMAIN d

\* add_file: the two early returns, for a task type that is not a key of
\* FileTracker.data and for a path that does not exist
AddFileRefused(d, task_type, exists) == task_type \notin DOMAIN d \/ ~exists

\* variant of add_file_insert: the record is put at the head of every list
add_file_insert_everywhere(d, task_type, file_info) ==
    [t \in DOMAIN d |-> <<file_info>> \o d[t]]

\* variant of add_file_insert: the record is appended, so that the slice
\* keeps the oldest records
add_file_insert_append(d, task_type, file_info) ==
    [d EXCEPT ![task_type] = @ \o <<file_info>>]

\* add_file: self.data[task_type].insert(0, file_info)
add_file_insert(d, task_type, file_info) ==
    [d EXCEPT ![task_type] = <<file_info>> \o @]

\* add_file: self.data[task_type] = self.data[task_type][:MAX_TRACKED_FILES]
add_file_slice(d, task_type) ==
    [d EXCEPT ![task_type] = Take(@, MAX_TRACKED_FILES)]

\* FileTracker.get_files(task_type)
get_files(d, task_type) ==
    IF task_type \in DOMAIN d
    THEN [t \in {task_type} |-> d[task_type]]
    ELSE [t \in {task_type} |-> <<>>]

\* variant of ReleasePermit: the permit is not released
ReleasePermitLeak(holder) == holder

\* the permit after the "with global_task_lock" block is left
ReleasePermit(holder) == "free"

\* add_file: the warning logged when the record is refused
AddFileWarning(d, task_type, exists) ==
    IF task_type \notin DOMAIN d THEN "Unknown task type"
    ELSE IF ~exists THEN "File does not exist"
    ELSE "none"

\* the history of the records add_file has taken, oldest first
Record(rec, task_type, path) ==
    [t \in DOMAIN rec \cup {task_type} |->
        IF t = task_type
        THEN Append(IF t \in DOMAIN rec THEN rec[t] ELSE <<>>, path)
        ELSE rec[t]]

\* add_file up to self.data[task_type].insert(0, file_info): the two early
\* returns (add_file is over), or the lock taken and the record inserted in
\* place.  On a self.data that is no dict self.data[task_type] raises
\* TypeError under the lock: the with block releases it and add_file is
\* left by the exception.
AddFileBegin(task_type, exists, file_info) ==
    /\ apc.step = "idle"
    /\ nAdds' = nAdds + 1
    /\ addWarning' = AddFileWarning(data, task_type, exists)
    /\ IF AddFileRefused(data, task_type, exists)
       THEN UNCHANGED <<data, recorded, tracker_lock, apc>>
       ELSE IF ~IsDict(data)
       THEN /\ tracker_lock = "free"
            /\ UNCHANGED <<data, recorded, tracker_lock, apc>>
       ELSE /\ tracker_lock = "free"
            /\ tracker_lock' = "add_file"
            /\ data' = add_file_insert(data, task_type, file_info)
            /\ recorded' = Record(recorded, task_type, file_info.path)
            /\ apc' = [step |-> "slice", task_type |-> task_type]

\* self.data[task_type] = self.data[task_type][:MAX_TRACKED_FILES], then the
\* with block is left.  The key is bound to a new list: who holds the dict
\* sees the new list, who holds the old list keeps it, record inserted and
\* nothing evicted.
AddFileTrim ==
    /\ apc.step = "slice"
    /\ data' = add_file_slice(data, apc.task_type)
    /\ held' = IF apc.task_type \in DOMAIN held.lists
               THEN [held EXCEPT !.lists[apc.task_type] =
                        IF @.live THEN [live |-> FALSE, value |-> data[apc.task_type]]
                        ELSE @]
               ELSE held
    /\ tracker_lock' = "free"
    /\ apc' = [apc EXCEPT !.step = "save"]

\* how _save_data ends: the document is written; open(TRACKER_FILE, 'w')
\* raises and the file is as it was; open has truncated the file and the
\* write, flush or close raises
SaveOutcomes == {"written", "open_fails", "write_fails"}

\* self._save_data(): the lock is taken again for open(TRACKER_FILE, 'w') and
\* json.dump.  An exception is caught and logged by _save_data: a file that
\* could not be opened is as it was (a missing file stays missing), a file
\* that was truncated is left with a text json.load refuses.
save_data(file, d, outcome) ==
    CASE outcome = "written" -> Stored(d)
      [] outcome = "open_fails" -> file
      [] outcome = "write_fails" -> Unreadable

SaveData(outcome) ==
    /\ apc.step = "save"
    /\ tracker_lock = "free"
    /\ tracker_file' = save_data(tracker_file, data, outcome)
    /\ saveFailed' = (outcome # "written")
    /\ apc' = NoAdd

\* -------------------------------------------- global_task_worker (worker)
\* task_request = self.global_processing_queue.get()
WorkerGet ==
    /\ wpc = "get"
    /\ global_processing_queue # <<>>
    /\ task_request' = QueueGet(global_processing_queue).item
    /\ global_processing_queue' = QueueGet(global_processing_queue).rest
    /\ wpc' = "enter"
    /\ UNCHANGED <<global_task_lock, is_processing, status_lock, file_lock,
                   order_data_file, order_data, analysis_result, result, pingState, fineVars, moreVars>>
    /\ UNCHANGED <<statusVars, ledgerVars, consumerVars, workerHist>>

\* variant of WorkerEnter: the task is started without taking the permit
WorkerEnterNoPermit ==
    /\ wpc = "enter"
    /\ wpc' = "flag"
    /\ UNCHANGED <<global_processing_queue, global_task_lock, is_processing, status_lock,
                   file_lock, order_data_file, pingState, fineVars, moreVars>>
    /\ UNCHANGED <<statusVars, ledgerVars, consumerVars, workerLocals, workerHist>>

\* with global_task_lock: the permit is taken
WorkerEnter ==
    /\ wpc = "enter"
    /\ global_task_lock = "free"
    /\ global_task_lock' = "worker"
    /\ wpc' = "flag"
    /\ UNCHANGED <<global_processing_queue, is_processing, status_lock, file_lock,
                   order_data_file, pingState, fineVars, moreVars>>
    /\ UNCHANGED <<statusVars, ledgerVars, consumerVars, workerLocals, workerHist>>

\* with self.processing_lock: self.is_processing = True.  The worker waits
\* here, holding the permit, while a callback holds processing_lock.
WorkerSetProcessing ==
    /\ wpc = "flag"
    /\ processing_lock = "free"
    /\ is_processing' = TRUE
    /\ wpc' = "running"
    /\ UNCHANGED <<global_processing_queue, global_task_lock, status_lock, file_lock,
                   order_data_file, pingState, fineVars, moreVars>>
    /\ UNCHANGED <<statusVars, ledgerVars, consumerVars, workerLocals, workerHist>>

\* process_task_analysis: self.update_task_status(task_name, "RUNNING"); an
\* exception it raises is caught by the except branch of process_task_analysis
ProcessRunning ==
    /\ wpc = "running"
    /\ status_lock = "free"
    /\ task_statuses' = update_task_status(task_statuses, TaskName(task_request), "RUNNING")
    /\ statusCalls' = CountCall(statusCalls, TaskName(task_request))
    /\ wpc' = IF UpdateRaises(TaskName(task_request)) THEN "pta_except" ELSE "snapshot"
    /\ UNCHANGED <<global_processing_queue, global_task_lock, is_processing,
                   status_lock, file_lock, order_data_file, pingState, fineVars, moreVars>>
    /\ UNCHANGED <<ledgerVars, consumerVars, workerLocals, workerHist>>

\* process_task_analysis: order_data = self.get_current_order_data()
ProcessSnapshot ==
    /\ wpc = "snapshot"
    /\ file_lock = "free"
    /\ order_data' = get_current_order_data(order_data_file)
    /\ snapshotRead' = [kind |-> "doc",
                        doc |-> get_current_order_data(order_data_file),
                        old |-> committed,
                        new |-> JsonLoad(order_data_file \o pending).doc]
    /\ wpc' = "analyze"
    /\ UNCHANGED <<global_processing_queue, global_task_lock, is_processing,
                   status_lock, file_lock, order_data_file, pingState, fineVars, moreVars, task_request,
                   analysis_result, result>>
    /\ UNCHANGED <<statusVars, ledgerVars, consumerVars>>
    /\ UNCHANGED <<analyzing, dispatched, cameraRead, raised, sinkFailed,
                   statusAtPublish, attempts, sink, uploads>>

\* analysis_method(task_data) for a name without analyzer: the lambda of
\* task_analysis_map["unknown_task"] returns at once
CallUnknownTask ==
    /\ wpc = "analyze"
    /\ ~HasAnalyzer(TaskName(task_request))
    /\ analysis_result' = UnknownOutcome
    /\ dispatched' = Append(dispatched, task_request.id)
    /\ wpc' = "record"
    /\ UNCHANGED <<global_processing_queue, global_task_lock, is_processing,
                   status_lock, file_lock, order_data_file, pingState, fineVars, moreVars, task_request,
                   order_data, result>>
    /\ UNCHANGED <<statusVars, ledgerVars, consumerVars>>
    /\ UNCHANGED <<analyzing, cameraRead, snapshotRead, raised, sinkFailed,
                   statusAtPublish, attempts, sink, uploads>>

\* analysis_method(task_data) for an analyzer of TaskAnalyzer: the call starts
\* with _init_camera, which opens order_data.json without taking file_lock.
\* cameraOpened is camera.isOpened().  folding_task_analysis sets
\* __folding_value to None before it calls _init_camera.
AnalyzerInitCamera(cameraOpened) ==
    /\ wpc = "analyze"
    /\ HasAnalyzer(TaskName(task_request))
    /\ dispatched' = Append(dispatched, task_request.id)
    /\ folding_value' = IF TaskName(task_request) = "FORDING" THEN "None"
                        ELSE folding_value
    /\ lastFolding' = IF /\ TaskName(task_request) = "FORDING"
                         /\ cameraOpened
                         /\ ~JsonLoad(order_data_file).ok
                      THEN [ran |-> TRUE, status |-> "ERROR", captured |-> FALSE,
                            value |-> "None"]
                      ELSE lastFolding
    /\ IF ~cameraOpened
       THEN /\ cameraRead' = [NoRead EXCEPT !.kind = "no_camera"]
            /\ analyzing' = analyzing + 1
            /\ raised' = raised
            /\ wpc' = "inspect"
       ELSE IF JsonLoad(order_data_file).ok
       THEN /\ cameraRead' = [kind |-> "doc",
                              doc |-> JsonLoad(order_data_file).doc,
                              old |-> committed,
                              new |-> JsonLoad(order_data_file \o pending).doc]
            /\ analyzing' = analyzing + 1
            /\ raised' = raised
            /\ wpc' = "inspect"
       ELSE \* json.load raises JSONDecodeError out of the analyzer
            /\ cameraRead' = [kind |-> "decode_error",
                              doc |-> EmptyDoc,
                              old |-> committed,
                              new |-> JsonLoad(order_data_file \o pending).doc]
            /\ analyzing' = analyzing
            /\ raised' = TRUE
            /\ wpc' = "pta_except"
    /\ UNCHANGED <<global_processing_queue, global_task_lock, is_processing,
                   status_lock, file_lock, order_data_file, pingState, fineVars, lockVars, queueVars>>
    /\ UNCHANGED <<statusVars, ledgerVars, consumerVars, workerLocals>>
    /\ UNCHANGED <<snapshotRead, sinkFailed, statusAtPublish, attempts, sink, uploads>>

\* the two analyzers that share TaskAnalyzer.__folding_value
HandoffTypes == {"FORDING", "FINAL"}

\* the ways through folding_task_analysis: the camera is not opened; no model
\* or no frame; the first box is of class OK; it is of another class; there
\* is no box; an exception is raised after save_frame (model(frame) raises,
\* or results is empty and first_result is unbound) and caught by the except
\* branch
FoldingPaths == {"no_camera", "no_frame", "ok", "ng", "no_boxes", "exception"}

\* folding_task_analysis after _init_camera: the dictionary returned and the
\* __folding_value left behind
folding_task_analysis(path) ==
    CASE path \in {"no_camera", "no_frame"} ->
             [result |-> Outcome("NG", "0%", "Q034"), folding_value |-> "None"]
      [] path = "ok" ->
             [result |-> WithFile(Outcome("OK", MeasuredConfidence, "OK"), "frame"),
              folding_value |-> "None"]
      [] path = "ng" ->
             [result |-> WithFile(Outcome("NG", "0%", "NG"), "frame"),
              folding_value |-> "NG"]
      [] path = "no_boxes" ->
             [result |-> WithFile(Outcome("NG", "0%", "Q034"), "frame"),
              folding_value |-> "NG"]
      [] path = "exception" ->
             [result |-> WithFile(Outcome("NG", "0%", "Q034"), "frame"),
              folding_value |-> "None"]

\* the ways through final_check_task_analysis: the camera is not opened; no
\* frame; save_frame raises; the frame is saved and __folding_value read
FinalPaths == {"no_camera", "no_frame", "exception", "checked"}

\* final_check_task_analysis after _init_camera
final_check_task_analysis(path, value) ==
    CASE path = "no_camera" -> Outcome("NG", "0%", "Failed to initialize camera 1")
      [] path = "no_frame" -> Outcome("NG", "0%", "Failed to capture frame")
      [] path = "exception" -> Outcome("NG", "0%", "Error during final check")
      [] path = "checked" ->
             IF value # "None"
             THEN WithFile(Outcome("OK", "96%", "OK"), "frame")
             ELSE WithFile(Outcome("NG", "0%", "NG"), "frame")

\* folding_task_analysis returns
FoldingReturn(path) ==
    /\ wpc = "inspect"
    /\ TaskName(task_request) = "FORDING"
    /\ cameraRead.kind = "no_camera" <=> path = "no_camera"
    /\ analysis_result' = folding_task_analysis(path).result
    /\ folding_value' = folding_task_analysis(path).folding_value
    /\ lastFolding' = [ran |-> TRUE, status |-> analysis_result'.status,
                       captured |-> HasSavedFile(analysis_result'),
                       value |-> folding_value']
    /\ analyzing' = analyzing - 1
    /\ wpc' = "record"
    /\ UNCHANGED <<global_processing_queue, global_task_lock, is_processing,
                   status_lock, file_lock, order_data_file, pingState, fineVars,
                   lockVars, queueVars, task_request, order_data, result>>
    /\ UNCHANGED <<statusVars, ledgerVars, consumerVars>>
    /\ UNCHANGED <<dispatched, cameraRead, snapshotRead, raised, sinkFailed,
                   statusAtPublish, attempts, sink, uploads>>

\* final_check_task_analysis returns
FinalReturn(path) ==
    /\ wpc = "inspect"
    /\ TaskName(task_request) = "FINAL"
    /\ cameraRead.kind = "no_camera" <=> path = "no_camera"
    /\ analysis_result' = final_check_task_analysis(path, folding_value)
    /\ analyzing' = analyzing - 1
    /\ wpc' = "record"
    /\ UNCHANGED <<global_processing_queue, global_task_lock, is_processing,
                   status_lock, file_lock, order_data_file, pingState, fineVars,
                   moreVars, task_request, order_data, result>>
    /\ UNCHANGED <<statusVars, ledgerVars, consumerVars>>
    /\ UNCHANGED <<dispatched, cameraRead, snapshotRead, raised, sinkFailed,
                   statusAtPublish, attempts, sink, uploads>>

\* the analyzer returns its result dictionary
AnalyzerReturn(outcome) ==
    /\ wpc = "inspect"
    /\ TaskName(task_request) \notin HandoffTypes
    /\ outcome \in AnalyzerOutcomes(TaskName(task_request))
    /\ cameraRead.kind = "no_camera" => outcome = NoCameraOutcome(TaskName(task_request))
    /\ analysis_result' = outcome
    /\ analyzing' = analyzing - 1
    /\ wpc' = "record"
    /\ UNCHANGED <<global_processing_queue, global_task_lock, is_processing,
                   status_lock, file_lock, order_data_file, pingState, fineVars, moreVars, task_request,
                   order_data, result>>
    /\ UNCHANGED <<statusVars, ledgerVars, consumerVars>>
    /\ UNCHANGED <<dispatched, cameraRead, snapshotRead, raised, sinkFailed,
                   statusAtPublish, attempts, sink, uploads>>

\* an exception leaves the analyzer (code outside its try blocks)
AnalyzerRaise ==
    /\ wpc = "inspect"
    /\ TaskName(task_request) \notin HandoffTypes
    /\ cameraRead.kind = "doc"
    /\ analyzing' = analyzing - 1
    /\ raised' = TRUE
    /\ wpc' = "pta_except"
    /\ UNCHANGED <<global_processing_queue, global_task_lock, is_processing,
                   status_lock, file_lock, order_data_file, pingState, fineVars, moreVars>>
    /\ UNCHANGED <<statusVars, ledgerVars, consumerVars, workerLocals>>
    /\ UNCHANGED <<dispatched, cameraRead, snapshotRead, sinkFailed,
                   statusAtPublish, attempts, sink, uploads>>

\* variant of ProcessExcept: the status is not forced to ERROR
ProcessExceptNoStatus ==
    /\ wpc = "pta_except"
    /\ result' = ErrorResult(TaskName(task_request))
    /\ wpc' = "publish"
    /\ UNCHANGED <<global_processing_queue, global_task_lock, is_processing,
                   status_lock, file_lock, order_data_file, pingState, fineVars, moreVars, task_request,
                   order_data, analysis_result>>
    /\ UNCHANGED <<statusVars, ledgerVars, consumerVars, workerHist>>

\* process_task_analysis: the except branch.  When update_task_status raises
\* in it, nothing is returned: the exception leaves process_task_analysis
\* and the "with global_task_lock" block and reaches the except branch of
\* the worker.
ProcessExcept ==
    /\ wpc = "pta_except"
    /\ status_lock = "free"
    /\ task_statuses' = update_task_status(task_statuses, TaskName(task_request), "ERROR")
    /\ statusCalls' = CountCall(statusCalls, TaskName(task_request))
    /\ IF UpdateRaises(TaskName(task_request))
       THEN /\ global_task_lock' = ReleasePermit(global_task_lock)
            /\ wpc' = "except"
            /\ UNCHANGED result
       ELSE /\ result' = ErrorResult(TaskName(task_request))
            /\ wpc' = "publish"
            /\ UNCHANGED global_task_lock
    /\ UNCHANGED <<global_processing_queue, is_processing,
                   status_lock, file_lock, order_data_file, pingState, fineVars, moreVars, task_request,
                   order_data, analysis_result>>
    /\ UNCHANGED <<ledgerVars, consumerVars, workerHist>>

\* variant of NeedsUpload: every saved file is uploaded
NeedsUploadAlways(res) == HasSavedFile(res)

\* process_task_analysis: is upload_file called for this analysis_result
NeedsUpload(res) == HasSavedFile(res) /\ res.status = "NG"

\* upload_file: True only when the file exists and UPLOAD_API answers 200;
\* every failure is caught and gives False
upload_file(exists, response_ok) == exists /\ response_ok

\* where process_task_analysis goes on after add_file
AfterAddFile(res) == IF NeedsUpload(res) THEN "upload" ELSE "terminal"

\* what the actions of the worker inside add_file and upload_file leave alone
RecordFrame ==
    /\ UNCHANGED <<global_processing_queue, global_task_lock, is_processing,
                   status_lock, file_lock, order_data_file, pingState, moreVars,
                   task_request, order_data, result, seen, upc, tpc>>
    /\ UNCHANGED <<statusVars, consumerVars>>
    /\ UNCHANGED <<analyzing, dispatched, cameraRead, snapshotRead, raised, sinkFailed,
                   statusAtPublish, attempts, sink>>

\* process_task_analysis after the analyzer has returned: without a saved
\* file neither add_file nor upload_file is called; with one,
\* file_tracker.add_file is called and runs up to its early return or up to
\* insert(0, file_info).  exists is os.path.exists(file_path).
ProcessRecord(exists) ==
    /\ wpc = "record"
    /\ IF HasSavedFile(analysis_result)
       THEN /\ AddFileBegin(TaskName(task_request), exists,
                    [path |-> task_request.id,
                     status |-> DictGet(analysis_result, "status", "UNKNOWN"),
                     task_type |-> TaskName(task_request),
                     details |-> DictGet(analysis_result, "details", "")])
            /\ wpc' = IF AddFileRefused(data, TaskName(task_request), exists)
                      THEN AfterAddFile(analysis_result)
                      ELSE IF ~IsDict(data) THEN "pta_except" ELSE "add_file"
       ELSE /\ exists
            /\ wpc' = "terminal"
            /\ UNCHANGED <<data, recorded, nAdds, addWarning, tracker_lock, apc>>
    /\ UNCHANGED <<tracker_file, saveFailed, held, uploads, analysis_result>>
    /\ RecordFrame

\* add_file: the slice, after which FileTracker.lock is released
ProcessAddFileSlice ==
    /\ wpc = "add_file"
    /\ AddFileTrim
    /\ UNCHANGED <<tracker_file, saveFailed, recorded, nAdds, addWarning, wpc, uploads,
                   analysis_result>>
    /\ RecordFrame

\* add_file: self._save_data(), the last statement of add_file
ProcessSaveData(outcome) ==
    /\ wpc = "add_file"
    /\ SaveData(outcome)
    /\ wpc' = AfterAddFile(analysis_result)
    /\ UNCHANGED <<data, recorded, nAdds, addWarning, tracker_lock, held, uploads,
                   analysis_result>>
    /\ RecordFrame

\* process_task_analysis: upload_file for an NG result with a saved file
\* (upload_file never raises; requests.post has no timeout) and the key
\* file_uploaded of analysis_result.  exists is os.path.exists(file_path),
\* response_ok is whether UPLOAD_API answers 200.
ProcessUpload(exists, response_ok) ==
    /\ wpc = "upload"
    /\ uploads' = uploads + 1
    /\ analysis_result' =
           [f \in DOMAIN analysis_result \cup {"file_uploaded"} |->
               IF f = "file_uploaded"
               THEN upload_file(exists, response_ok)
               ELSE analysis_result[f]]
    /\ wpc' = "terminal"
    /\ UNCHANGED <<ledgerVars, tracker_lock, apc, held>>
    /\ RecordFrame

\* variant of ProcessTerminal: the result is built and returned while the
\* status is left as it is
ProcessTerminalNoStatus ==
    /\ wpc = "terminal"
    /\ result' = BuildResult(TaskName(task_request), analysis_result, order_data)
    /\ wpc' = "publish"
    /\ UNCHANGED <<global_processing_queue, global_task_lock, is_processing,
                   status_lock, file_lock, order_data_file, pingState, fineVars, moreVars, task_request,
                   order_data, analysis_result>>
    /\ UNCHANGED <<statusVars, ledgerVars, consumerVars, workerHist>>

\* variant of ProcessTerminal: the status is set for a result OK only
ProcessTerminalOkOnly ==
    /\ wpc = "terminal"
    /\ status_lock = "free"
    /\ result' = BuildResult(TaskName(task_request), analysis_result, order_data)
    /\ IF result'.RESULT = "OK"
       THEN /\ task_statuses' = update_task_status(task_statuses,
                                     TaskName(task_request), "COMPLETED")
            /\ statusCalls' = CountCall(statusCalls, TaskName(task_request))
       ELSE UNCHANGED statusVars
    /\ wpc' = "publish"
    /\ UNCHANGED <<global_processing_queue, global_task_lock, is_processing,
                   status_lock, file_lock, order_data_file, pingState, fineVars, moreVars, task_request,
                   order_data, analysis_result>>
    /\ UNCHANGED <<ledgerVars, consumerVars, workerHist>>

\* process_task_analysis: build result, set COMPLETED or ERROR, return
ProcessTerminal ==
    /\ wpc = "terminal"
    /\ status_lock = "free"
    /\ result' = BuildResult(TaskName(task_request), analysis_result, order_data)
    /\ task_statuses' = update_task_status(task_statuses, TaskName(task_request),
                                           TerminalStatus(result'))
    /\ statusCalls' = CountCall(statusCalls, TaskName(task_request))
    /\ wpc' = "publish"
    /\ UNCHANGED <<global_processing_queue, global_task_lock, is_processing,
                   status_lock, file_lock, order_data_file, pingState, fineVars, moreVars, task_request,
                   order_data, analysis_result>>
    /\ UNCHANGED <<ledgerVars, consumerVars, workerHist>>

\* variant of WorkerPublish: a failed delivery is tried again
WorkerPublishRetry(delivered) ==
    /\ wpc = "publish"
    /\ sink' = result
    /\ attempts' = attempts + 1
    /\ statusAtPublish' = DictGet(task_statuses, TaskName(task_request), NoStatus)
    /\ sinkFailed' = ~delivered
    /\ global_task_lock' = IF delivered THEN ReleasePermit(global_task_lock)
                           ELSE global_task_lock
    /\ wpc' = IF delivered THEN "finally" ELSE "publish"
    /\ UNCHANGED <<global_processing_queue, is_processing, status_lock,
                   file_lock, order_data_file, pingState, fineVars, moreVars>>
    /\ UNCHANGED <<statusVars, ledgerVars, consumerVars, workerLocals>>
    /\ UNCHANGED <<analyzing, dispatched, cameraRead, snapshotRead, raised, uploads>>

\* send_result_to_node_red(result); delivered is whether the post succeeds.
\* A failure is re-raised, leaves the with block and reaches the except
\* branch of the worker.
WorkerPublish(delivered) ==
    /\ wpc = "publish"
    /\ sink' = result
    /\ attempts' = attempts + 1
    /\ statusAtPublish' = DictGet(task_statuses, TaskName(task_request), NoStatus)
    /\ sinkFailed' = ~delivered
    /\ global_task_lock' = ReleasePermit(global_task_lock)
    /\ wpc' = IF delivered THEN "finally" ELSE "except"
    /\ UNCHANGED <<global_processing_queue, is_processing, status_lock,
                   file_lock, order_data_file, pingState, fineVars, moreVars>>
    /\ UNCHANGED <<statusVars, ledgerVars, consumerVars, workerLocals>>
    /\ UNCHANGED <<analyzing, dispatched, cameraRead, snapshotRead, raised, uploads>>

\* variant of WorkerExcept: the delivery failure is only logged
WorkerExceptLogOnly ==
    /\ wpc = "except"
    /\ wpc' = "finally"
    /\ UNCHANGED <<global_processing_queue, global_task_lock, is_processing,
                   status_lock, file_lock, order_data_file, pingState, fineVars, moreVars>>
    /\ UNCHANGED <<statusVars, ledgerVars, consumerVars, workerLocals, workerHist>>

\* variant of WorkerExcept: the worker goes back to the queue from the except
\* branch, without the finally block
WorkerExceptNoFinally ==
    /\ wpc = "except"
    /\ status_lock = "free"
    /\ task_statuses' = update_task_status(task_statuses, TaskName(task_request), "ERROR")
    /\ statusCalls' = CountCall(statusCalls, TaskName(task_request))
    /\ wpc' = "get"
    /\ UNCHANGED <<global_processing_queue, global_task_lock, is_processing,
                   status_lock, file_lock, order_data_file, pingState, fineVars, moreVars>>
    /\ UNCHANGED <<ledgerVars, consumerVars, workerLocals, workerHist>>

\* global_task_worker: except Exception: update_task_status(task_type, "ERROR");
\* an exception it raises here is caught by nothing: the finally block runs
\* and the exception then leaves the while loop
WorkerExcept ==
    /\ wpc = "except"
    /\ status_lock = "free"
    /\ task_statuses' = update_task_status(task_statuses, TaskName(task_request), "ERROR")
    /\ statusCalls' = CountCall(statusCalls, TaskName(task_request))
    /\ wpc' = "finally"
    /\ UNCHANGED <<global_processing_queue, global_task_lock, is_processing,
                   status_lock, file_lock, order_data_file, pingState, fineVars, moreVars>>
    /\ UNCHANGED <<ledgerVars, consumerVars, workerLocals, workerHist>>

\* global_task_worker: finally: with self.processing_lock:
\* self.is_processing = False
WorkerFinally ==
    /\ wpc = "finally"
    /\ processing_lock = "free"
    /\ is_processing' = FALSE
    /\ wpc' = "task_done"
    /\ UNCHANGED <<global_processing_queue, global_task_lock, status_lock, file_lock,
                   order_data_file, pingState, fineVars, moreVars>>
    /\ UNCHANGED <<statusVars, ledgerVars, consumerVars, workerLocals, workerHist>>

\* global_task_worker: self.global_processing_queue.task_done(), the last
\* statement of the finally block; the locals of the iteration go out of
\* scope.  The worker goes back to the queue, unless update_task_status
\* raised in the except branch: that exception is raised again when the
\* finally block is over and ends the thread.
WorkerTaskDone ==
    /\ wpc = "task_done"
    /\ unfinished_tasks' = unfinished_tasks - 1
    /\ wpc' = IF UpdateRaises(TaskName(task_request)) THEN "ended" ELSE "get"
    /\ task_request' = NoRequest
    /\ order_data' = EmptyDoc
    /\ analysis_result' = NoOutcome
    /\ result' = NoResult
    /\ cameraRead' = NoRead
    /\ snapshotRead' = NoRead
    /\ raised' = FALSE
    /\ sinkFailed' = FALSE
    /\ statusAtPublish' = NoStatus
    /\ attempts' = 0
    /\ sink' = NoResult
    /\ uploads' = 0
    /\ addWarning' = "none"
    /\ UNCHANGED <<global_processing_queue, global_task_lock, is_processing, status_lock,
                   file_lock, order_data_file, pingState, fineVars, lockVars, handoffVars,
                   analyzing, dispatched>>
    /\ UNCHANGED <<statusVars, consumerVars, data, tracker_file, saveFailed, recorded, nAdds>>

\* ------------------------------------- consume_messages (consumer thread)
\* what the callbacks of the Node-RED queues leave alone
CallbackFrame ==
    /\ UNCHANGED <<global_task_lock, is_processing, status_lock, file_lock,
                   order_data_file, wpc, pingState, fineVars, lpc, handoffVars,
                   pending, nOrders, committed, accepted>>
    /\ UNCHANGED <<statusVars, ledgerVars, workerLocals, workerHist>>

\* the bodies of the task-start messages that json.loads turns into a dict
\* are given by their START ("<absent>" for a dict without the key); a body
\* that is no JSON text, or no JSON object, is "<malformed>"
Malformed == "<malformed>"

\* variant of NoderedCallback: the callback waits until no task is in flight
NoderedCallbackWaits(start) ==
    /\ cpc = "idle"
    /\ start # Malformed
    /\ global_task_lock = "free"
    /\ processing_lock = "free"
    /\ processing_lock' = "consumer"
    /\ incoming' = [id |-> nTasks + 1, START |-> start]
    /\ nTasks' = nTasks + 1
    /\ cpc' = "check"
    /\ delivery' = NoDelivery
    /\ UNCHANGED <<global_processing_queue, unfinished_tasks>>
    /\ CallbackFrame

\* the callback of create_nodered_callback up to "with self.processing_lock":
\* json.loads(body), task_request.get("START", "UNKNOWN_TASK"), the lock
\* taken
NoderedCallback(start) ==
    /\ cpc = "idle"
    /\ start # Malformed
    /\ processing_lock = "free"
    /\ processing_lock' = "consumer"
    /\ incoming' = [id |-> nTasks + 1, START |-> start]
    /\ nTasks' = nTasks + 1
    /\ cpc' = "check"
    /\ delivery' = NoDelivery
    /\ UNCHANGED <<global_processing_queue, unfinished_tasks>>
    /\ CallbackFrame

\* the callback with a body json.loads refuses (or that has no method get):
\* the except branch rejects the message and nothing is put on the queue
NoderedCallbackRejected ==
    /\ cpc = "idle"
    /\ nTasks' = nTasks + 1
    /\ delivery' = basic_nack(FALSE)
    /\ UNCHANGED <<global_processing_queue, unfinished_tasks, processing_lock,
                   incoming, cpc>>
    /\ CallbackFrame

\* if self.is_processing: ... else: ...: either way a line is logged, and the
\* with block is left
CallbackCheck ==
    /\ cpc = "check"
    /\ processing_lock' = "free"
    /\ cpc' = "put"
    /\ UNCHANGED <<global_processing_queue, unfinished_tasks, incoming, nTasks,
                   delivery>>
    /\ CallbackFrame

\* self.global_processing_queue.put(task_request), whatever is_processing
\* said
CallbackPut ==
    /\ cpc = "put"
    /\ global_processing_queue' = QueuePut(global_processing_queue, incoming)
    /\ unfinished_tasks' = unfinished_tasks + 1
    /\ cpc' = "ack"
    /\ UNCHANGED <<processing_lock, incoming, nTasks, delivery>>
    /\ CallbackFrame

\* ch.basic_ack(delivery_tag=method.delivery_tag)
CallbackAck ==
    /\ cpc = "ack"
    /\ delivery' = basic_ack
    /\ incoming' = NoRequest
    /\ cpc' = "idle"
    /\ UNCHANGED <<global_processing_queue, unfinished_tasks, processing_lock, nTasks>>
    /\ CallbackFrame

\* an order-context message that lacks one of the required fields
MalformedOrder(no, missing) ==
    SelectSeq(OrderItems(no), LAMBDA it : it[1] # missing)

\* the order-context messages that are enumerated: complete ones (ORD2
\* carries the key LINE as well), complete ones whose BOM or RECIPE has no
\* len(), and those that lack one required field
OrderMessages ==
    {OrderItems("ORD1"), OrderItemsLine("ORD2")}
    \cup {OrderItemsNoLen("ORD1", "BOM"), OrderItemsNoLen("ORD2", "RECIPE")}
    \cup {MalformedOrder(no, required_fields[i]) :
             no \in OrderNos, i \in 1..Len(required_fields)}

\* variant of ValidOrder: only the field logged by the callback is required
ValidOrderNoOnly(message_data) == "ORDER_NO" \in Keys(message_data)

\* process_web_message: the validation of the required fields
ValidOrder(message_data) ==
    \A i \in 1..Len(required_fields) : required_fields[i] \in Keys(message_data)

\* process_web_message after the file is written: the log line of the order
\* details takes len(message_data['BOM']) and len(message_data['RECIPE']),
\* which raises for a key that is absent and for a value without len()
OrderDetailsLogged(doc) ==
    \A f \in {"BOM", "RECIPE"} : f \in DOMAIN doc /\ doc[f] # NoLen

\* the order contexts of the updates that are acknowledged
ValidDocs == {AsDoc(OrderItems("ORD1")), AsDoc(OrderItemsLine("ORD2"))}

\* the order contexts that are written to the file: every required field is
\* present
WrittenDocs ==
    ValidDocs \cup {AsDoc(OrderItemsNoLen("ORD1", "BOM")),
                    AsDoc(OrderItemsNoLen("ORD2", "RECIPE"))}

\* web_to_ai_callback with a message that fails validation: the exception is
\* caught, the message is rejected and the file is not opened
WebCallbackRejected(message_data) ==
    /\ cpc = "idle"
    /\ ~ValidOrder(message_data)
    /\ nOrders' = nOrders + 1
    /\ delivery' = basic_nack(FALSE)
    /\ UNCHANGED <<global_processing_queue, global_task_lock, is_processing,
                   status_lock, file_lock, order_data_file, wpc, pingState, fineVars, moreVars, cpc,
                   pending, incoming, nTasks, committed, accepted>>
    /\ UNCHANGED <<statusVars, ledgerVars, workerLocals, workerHist>>

\* process_web_message: with file_lock: open(ORDER_DATA_FILE, "w") truncates
\* the file; json.dump then writes into the buffer of the file object
WebCallbackOpen(message_data) ==
    /\ cpc = "idle"
    /\ ValidOrder(message_data)
    /\ file_lock = "free"
    /\ file_lock' = "consumer"
    /\ order_data_file' = <<>>
    /\ pending' = JsonDump(message_data)
    /\ cpc' = "writing"
    /\ nOrders' = nOrders + 1
    /\ delivery' = NoDelivery
    /\ accepted' = IF OrderDetailsLogged(AsDoc(message_data))
                   THEN AsDoc(message_data) ELSE accepted
    /\ UNCHANGED <<global_processing_queue, global_task_lock, is_processing,
                   status_lock, wpc, pingState, fineVars, moreVars, incoming, nTasks, committed>>
    /\ UNCHANGED <<statusVars, ledgerVars, workerLocals, workerHist>>

\* json.dump has filled the buffer of the file object: the buffer is flushed
\* to the file while the rest of the document is still to be written
WebCallbackFlush ==
    /\ cpc = "writing"
    /\ Len(pending) > FlushChunks
    /\ order_data_file' = order_data_file \o SubSeq(pending, 1, FlushChunks)
    /\ pending' = SubSeq(pending, FlushChunks + 1, Len(pending))
    /\ UNCHANGED <<global_processing_queue, global_task_lock, is_processing,
                   status_lock, file_lock, wpc, pingState, fineVars, moreVars, cpc, incoming, nTasks, nOrders,
                   committed, accepted, delivery>>
    /\ UNCHANGED <<statusVars, ledgerVars, workerLocals, workerHist>>

\* the with blocks are left: the file is closed (the rest of the buffer is
\* written) and file_lock is released; the callback has not answered yet
WebCallbackClose ==
    /\ cpc = "writing"
    /\ order_data_file' = order_data_file \o pending
    /\ committed' = JsonLoad(order_data_file').doc
    /\ pending' = <<>>
    /\ file_lock' = "free"
    /\ cpc' = "written"
    /\ UNCHANGED <<global_processing_queue, global_task_lock, is_processing,
                   status_lock, wpc, pingState, fineVars, moreVars, incoming, nTasks, nOrders, accepted,
                   delivery>>
    /\ UNCHANGED <<statusVars, ledgerVars, workerLocals, workerHist>>

\* what the actions of the callback after the file is written leave alone
WebCallbackFrame ==
    /\ UNCHANGED <<global_processing_queue, global_task_lock, is_processing,
                   status_lock, file_lock, order_data_file, wpc, pingState, fineVars,
                   moreVars, pending, incoming, nTasks, nOrders, committed, accepted>>
    /\ UNCHANGED <<statusVars, ledgerVars, workerLocals, workerHist>>

\* process_web_message logs the order details and returns, and the callback
\* acknowledges the message.  message_data is the document just written, the
\* one committed holds.
WebCallbackAck ==
    /\ cpc = "written"
    /\ OrderDetailsLogged(committed)
    /\ cpc' = "idle"
    /\ delivery' = basic_ack
    /\ WebCallbackFrame

\* len() raises TypeError in the log line of the order details, after the
\* file was replaced: process_web_message re-raises and the callback rejects
\* the message
WebCallbackLogRaises ==
    /\ cpc = "written"
    /\ ~OrderDetailsLogged(committed)
    /\ cpc' = "idle"
    /\ delivery' = basic_nack(FALSE)
    /\ WebCallbackFrame

\* ----------------------------------------- ping_status_worker (heartbeat)
\* with self.status_lock: the pings of one cycle are posted while it is held
PingAcquire ==
    /\ ppc = "sleep"
    /\ status_lock = "free"
    /\ status_lock' = "ping"
    /\ ppc' = "pinging"
    /\ UNCHANGED <<global_processing_queue, global_task_lock, is_processing,
                   file_lock, order_data_file, wpc>>
    /\ UNCHANGED <<statusVars, ledgerVars, consumerVars, workerLocals, workerHist, pingVars,
                   fineVars, moreVars>>

\* variant of PingRelease: the ping worker resets the types it has pinged
PingReleaseResets ==
    /\ ppc = "pinging"
    /\ status_lock' = "free"
    /\ ppc' = "sleep"
    /\ task_statuses' = [t \in DOMAIN task_statuses |->
                            [status |-> "IDLE", index |-> task_statuses[t].index + 1]]
    /\ UNCHANGED <<global_processing_queue, global_task_lock, is_processing,
                   file_lock, order_data_file, wpc, statusCalls>>
    /\ UNCHANGED <<ledgerVars, consumerVars, workerLocals, workerHist, pingVars,
                   fineVars, moreVars>>

\* the with block is left (after the last post or on an exception)
PingRelease ==
    /\ ppc = "pinging"
    /\ status_lock' = "free"
    /\ ppc' = "sleep"
    /\ UNCHANGED <<global_processing_queue, global_task_lock, is_processing,
                   file_lock, order_data_file, wpc>>
    /\ UNCHANGED <<statusVars, ledgerVars, consumerVars, workerLocals, workerHist, pingVars,
                   fineVars, moreVars>>

\* ------------------------- ping_status_worker, one requests.post at a time
\* the order of task_statuses.items(): the insertion order of the keys
StatusOrder == <<"CASE", "BOX", "COVER", "FORDING", "FINAL">>

\* what requests.post(PING_API, ...) does: a response with status 200, a
\* response with another status, or an exception (connection refused, ...)
PostOutcomes == {"200", "500", "exception"}

\* variant of HeartbeatBegin: the for loop is entered without status_lock
HeartbeatBeginNoLock ==
    /\ ppc = "sleep"
    /\ cycles < MaxCycles
    /\ ppc' = "posting"
    /\ pingQueue' = StatusOrder
    /\ pingLog' = <<>>
    /\ UNCHANGED <<global_processing_queue, global_task_lock, is_processing,
                   status_lock, file_lock, order_data_file, wpc, cycles>>
    /\ UNCHANGED <<statusVars, ledgerVars, consumerVars, workerLocals, workerHist,
                   fineVars, moreVars>>

\* with self.status_lock: for task_type, status_info in task_statuses.items()
HeartbeatBegin ==
    /\ ppc = "sleep"
    /\ cycles < MaxCycles
    /\ status_lock = "free"
    /\ status_lock' = "ping"
    /\ ppc' = "posting"
    /\ pingQueue' = StatusOrder
    /\ pingLog' = <<>>
    /\ UNCHANGED <<global_processing_queue, global_task_lock, is_processing,
                   file_lock, order_data_file, wpc, cycles>>
    /\ UNCHANGED <<statusVars, ledgerVars, consumerVars, workerLocals, workerHist,
                   fineVars, moreVars>>

\* one iteration of the for loop.  A response other than 200 is logged and
\* the loop goes on; an exception leaves the for loop and the with block
\* (status_lock is released), is logged by the except branch of the while
\* loop, and the worker sleeps until the next cycle.
HeartbeatPost(outcome) ==
    /\ ppc = "posting"
    /\ pingQueue # <<>>
    /\ pingLog' = Append(pingLog, [AI_TASK |-> Head(pingQueue), outcome |-> outcome,
                                   status_info |-> task_statuses[Head(pingQueue)]])
    /\ IF outcome = "exception"
       THEN /\ pingQueue' = <<>>
            /\ status_lock' = "free"
            /\ ppc' = "sleep"
            /\ cycles' = cycles + 1
       ELSE /\ pingQueue' = Tail(pingQueue)
            /\ UNCHANGED <<status_lock, ppc, cycles>>
    /\ UNCHANGED <<global_processing_queue, global_task_lock, is_processing,
                   file_lock, order_data_file, wpc>>
    /\ UNCHANGED <<statusVars, ledgerVars, consumerVars, workerLocals, workerHist,
                   fineVars, moreVars>>

\* the for loop is exhausted: the with block is left and the worker sleeps
HeartbeatEnd ==
    /\ ppc = "posting"
    /\ pingQueue = <<>>
    /\ status_lock' = "free"
    /\ ppc' = "sleep"
    /\ cycles' = cycles + 1
    /\ UNCHANGED <<global_processing_queue, global_task_lock, is_processing,
                   file_lock, order_data_file, wpc, pingQueue, pingLog>>
    /\ UNCHANGED <<statusVars, ledgerVars, consumerVars, workerLocals, workerHist,
                   fineVars, moreVars>>

\* ------------------------------------------------------- specifications
\* the steps of the dispatcher thread that depend on no outside service
WorkerSteps ==
    \/ WorkerGet
    \/ WorkerEnter
    \/ WorkerSetProcessing
    \/ ProcessRunning
    \/ ProcessSnapshot
    \/ CallUnknownTask
    \/ \E cameraOpened \in BOOLEAN : AnalyzerInitCamera(cameraOpened)
    \/ \E outcome \in case_task_analysis \cup box_task_analysis \cup cover_task_analysis :
           AnalyzerReturn(outcome)
    \/ AnalyzerRaise
    \/ ProcessExcept
    \/ \E exists \in BOOLEAN : ProcessRecord(exists)
    \/ ProcessAddFileSlice
    \/ \E outcome \in SaveOutcomes : ProcessSaveData(outcome)
    \/ ProcessTerminal
    \/ \E delivered \in BOOLEAN : WorkerPublish(delivered)
    \/ WorkerExcept
    \/ WorkerFinally
    \/ WorkerTaskDone

\* upload_file returns: requests.post to UPLOAD_API has no timeout
WorkerUpload ==
    \E exists \in BOOLEAN, response_ok \in BOOLEAN :
        ProcessUpload(exists, response_ok)

\* global_task_worker
Worker == WorkerSteps \/ WorkerUpload

\* the callbacks of the Node-RED queues, for at most maxReq task-start
\* messages with a START drawn from starts
TaskIntake(starts, maxReq) ==
    \/ \E start \in starts : nTasks < maxReq /\ NoderedCallback(start)
    \/ nTasks < maxReq /\ NoderedCallbackRejected
    \/ CallbackCheck
    \/ CallbackPut
    \/ CallbackAck

\* the callback of WEB_TO_AI, for at most maxOrders order-context messages
OrderIntake(maxOrders) ==
    \/ \E message_data \in OrderMessages :
           nOrders < maxOrders /\ WebCallbackRejected(message_data)
    \/ \E message_data \in OrderMessages :
           nOrders < maxOrders /\ WebCallbackOpen(message_data)
    \/ WebCallbackFlush
    \/ WebCallbackClose
    \/ WebCallbackAck
    \/ WebCallbackLogRaises

\* the consumer thread, ingesting at most maxReq task-start messages and
\* maxOrders order-context messages
Consumer(maxReq, maxOrders) ==
    \/ TaskIntake(RequestStarts, maxReq)
    \/ OrderIntake(maxOrders)

Ping ==
    \/ PingAcquire
    \/ PingRelease

Next == Worker \/ Consumer(MaxReq, MaxOrders) \/ Ping

Spec == Init /\ [][Next]_vars

LiveNext == Worker \/ Consumer(MaxLiveReq, MaxLiveOrders) \/ Ping

\* The threads are scheduled fairly; nothing is assumed of the servers, so
\* the requests.post calls of the ping worker (made while it holds
\* status_lock) and of upload_file, which have no timeout, may never return.
\* The worker competes for status_lock with the ping worker, which sleeps
\* 60 s after each cycle, and for processing_lock with the callback, which
\* holds it for one read, so a worker step that is enabled again and again
\* is taken (strong fairness); the ping worker starts its cycle when the
\* lock is free, and a callback that was entered runs to its answer.
FairSpec ==
    /\ Init /\ [][LiveNext]_vars
    /\ SF_vars(WorkerSteps)
    /\ WF_vars(PingAcquire)
    /\ WF_vars(WebCallbackFlush \/ WebCallbackClose \/ WebCallbackAck
                 \/ WebCallbackLogRaises)
    /\ WF_vars(CallbackCheck \/ CallbackPut \/ CallbackAck)

\* the program fed with task-start messages that name FOLDING or carry no
\* START at all
IntakeNext ==
    \/ Worker
    \/ TaskIntake(IntakeStarts, MaxIntakeReq)
    \/ OrderIntake(MaxIntakeOrders)
    \/ Ping

IntakeSpec == Init /\ [][IntakeNext]_vars

\* the heartbeat on its own, one post at a time
HeartbeatNext ==
    \/ HeartbeatBegin
    \/ \E outcome \in PostOutcomes : HeartbeatPost(outcome)
    \/ HeartbeatEnd

HeartbeatSpec == Init /\ [][HeartbeatNext]_vars

\* Only the dispatcher worker is scheduled fairly, an open order file is
\* eventually closed and a callback that was entered runs to its basic_ack;
\* nothing is assumed of the requests.post calls of the ping worker and of
\* upload_file, which have no timeout and may never return.
DispatchFairSpec ==
    /\ Init /\ [][LiveNext]_vars
    /\ SF_vars(WorkerSteps)
    /\ WF_vars(WebCallbackFlush \/ WebCallbackClose \/ WebCallbackAck
                 \/ WebCallbackLogRaises)
    /\ WF_vars(CallbackCheck \/ CallbackPut \/ CallbackAck)

\* ---------------------------------- the ledger, statement by statement
\* FileTracker is a singleton shared by the dispatcher thread (add_file) and
\* the Flask thread (get_files, get_latest_files, then jsonify of the value
\* returned).  Python lists and dicts are shared by reference: insert(0, ...)
\* changes the list every holder sees, and the slice binds a new list to the
\* key while a holder of the old list keeps the old one.

\* FileTracker.get_latest_files(): the first record of every list, built
\* while the lock is held (a list of at most one record stands for the
\* record or None)
get_latest_files(d) == [t \in DOMAIN d |-> Take(d[t], 1)]

\* what a direct caller of add_file leaves alone
LedgerFrame ==
    /\ UNCHANGED <<global_processing_queue, global_task_lock, is_processing,
                   status_lock, file_lock, order_data_file, wpc, pingState, moreVars>>
    /\ UNCHANGED <<statusVars, consumerVars, workerLocals, workerHist>>
    /\ UNCHANGED <<seen, upc, tpc>>

\* add_file called directly, up to insert(0, file_info)
AddFileInsert(task_type, exists) ==
    /\ AddFileBegin(task_type, exists,
            [path |-> nAdds + 1, status |-> "OK", task_type |-> task_type,
             details |-> "OK"])
    /\ UNCHANGED <<tracker_file, saveFailed, held>>
    /\ LedgerFrame

\* add_file called directly: the slice
AddFileSlice ==
    /\ AddFileTrim
    /\ UNCHANGED <<tracker_file, saveFailed, recorded, nAdds, addWarning>>
    /\ LedgerFrame

\* add_file called directly: self._save_data()
AddFileSave(outcome) ==
    /\ SaveData(outcome)
    /\ UNCHANGED <<data, recorded, nAdds, addWarning, tracker_lock, held>>
    /\ LedgerFrame

\* at most maxAdds calls of add_file, for task types drawn from types
LedgerCalls(types, maxAdds) ==
    \/ \E task_type \in types, exists \in BOOLEAN :
           nAdds < maxAdds /\ AddFileInsert(task_type, exists)
    \/ AddFileSlice
    \/ \E outcome \in SaveOutcomes : AddFileSave(outcome)

\* the ledger on its own: add_file called on a fresh FileTracker
LedgerNext == LedgerCalls(LedgerTypes, MaxAdds)

LedgerSpec == Init /\ [][LedgerNext]_vars

\* what a reader of the ledger leaves alone
ReaderFrame ==
    /\ UNCHANGED <<global_processing_queue, global_task_lock, is_processing,
                   status_lock, file_lock, order_data_file, wpc, pingState, moreVars>>
    /\ UNCHANGED <<statusVars, consumerVars, workerLocals, workerHist>>
    /\ UNCHANGED <<ledgerVars, tracker_lock, apc, upc, tpc>>

\* a list object in the hands of a reader: the list self.data still binds to
\* its key (live), which insert(0, ...) changes in place, or a list nobody
\* changes any more
LiveList == [live |-> TRUE, value |-> <<>>]
OwnList(records) == [live |-> FALSE, value |-> records]

\* the keys of a dict in the order jsonify writes them: the JSON provider of
\* Flask sorts the keys
KeyOrder == <<"BOX", "CASE", "COVER", "FINAL", "FORDING", "LABEL", "SHIP">>
SortedKeys(d) == SelectSeq(KeyOrder, LAMBDA k : k \in DOMAIN d)

\* /api/files/<task_type>: get_files(task_type) returns, under the lock, a
\* new dict around the list object of self.data itself (or around a new
\* empty list for a key that is not there)
ReaderGetFiles(task_type) ==
    /\ held.kind = "none"
    /\ tracker_lock = "free"
    /\ held' = [kind |-> "lists",
                lists |-> [t \in {task_type} |->
                             IF task_type \in DOMAIN data THEN LiveList
                             ELSE OwnList(get_files(data, task_type)[task_type])],
                todo |-> <<task_type>>, pos |-> 0]
    /\ seen' = NoLists
    /\ ReaderFrame

\* /api/all_files: get_files() returns self.data itself
ReaderGetAll ==
    /\ held.kind = "none"
    /\ tracker_lock = "free"
    /\ held' = [kind |-> "dict", lists |-> NoLists, todo |-> <<>>, pos |-> 0]
    /\ seen' = NoLists
    /\ ReaderFrame

\* jsonify(self.data) begins, FileTracker.lock not held: sorted(dct.items())
\* takes the list object every key is bound to at that moment
ReaderItems ==
    /\ held.kind = "dict"
    /\ held' = [kind |-> "lists", lists |-> [t \in DOMAIN data |-> LiveList],
                todo |-> SortedKeys(data), pos |-> 0]
    /\ UNCHANGED seen
    /\ ReaderFrame

\* /api/last_files: get_latest_files() returns a dict of its own, built
\* while the lock is held (a list of at most one record stands for the
\* record or None)
ReaderGetLatest ==
    /\ held.kind = "none"
    /\ tracker_lock = "free"
    /\ held' = [kind |-> "latest",
                lists |-> [t \in DOMAIN data |-> OwnList(get_latest_files(data)[t])],
                todo |-> <<>>, pos |-> 0]
    /\ seen' = NoLists
    /\ ReaderFrame

\* jsonify of the dict get_latest_files built: nothing it reads is shared
ReaderLatest ==
    /\ held.kind = "latest"
    /\ seen' = [t \in DOMAIN held.lists |-> held.lists[t].value]
    /\ held' = NoHeld
    /\ ReaderFrame

\* the records of the list the reader is at, as they are now
HeldList ==
    IF held.lists[Head(held.todo)].live THEN data[Head(held.todo)]
    ELSE held.lists[Head(held.todo)].value

\* seen with one more record read for key k, or with key k as it is
Read(sn, k, records) ==
    [t \in DOMAIN sn \cup {k} |->
        (IF t \in DOMAIN sn THEN sn[t] ELSE <<>>) \o (IF t = k THEN records ELSE <<>>)]

\* jsonify walks a list with the list iterator, FileTracker.lock not held:
\* one step hands out lst[pos] if pos < len(lst) and moves on by one, or
\* finds the list at its end and goes to the list of the next key.  An
\* insert(0, ...) between two steps moves every record up by one place.
ReaderNext ==
    /\ held.kind = "lists"
    /\ IF held.pos < Len(HeldList)
       THEN /\ seen' = Read(seen, Head(held.todo), <<HeldList[held.pos + 1]>>)
            /\ held' = [held EXCEPT !.pos = @ + 1]
       ELSE /\ seen' = Read(seen, Head(held.todo), <<>>)
            /\ held' = IF Tail(held.todo) = <<>> THEN NoHeld
                       ELSE [held EXCEPT !.todo = Tail(@), !.pos = 0]
    /\ ReaderFrame

LedgerReadNext ==
    \/ LedgerCalls(LedgerTypes, MaxReadAdds)
    \/ \E task_type \in LedgerTypes : ReaderGetFiles(task_type)
    \/ ReaderGetAll
    \/ ReaderItems
    \/ ReaderGetLatest
    \/ ReaderLatest
    \/ ReaderNext

LedgerReadSpec == Init /\ [][LedgerReadNext]_vars

\* --------------------- update_task_status, statement by statement
UpdateStatuses == {"RUNNING", "COMPLETED", "ERROR"}

\* update_task_status(task_type, status) is called: with self.status_lock
UpdateBegin(task_type, status) ==
    /\ upc.step = "idle"
    /\ task_type \in DOMAIN task_statuses => statusCalls[task_type] < MaxUpdates
    /\ status_lock = "free"
    /\ status_lock' = "worker"
    /\ upc' = [step |-> "status", task_type |-> task_type, status |-> status,
               before |-> IF task_type \in DOMAIN task_statuses
                          THEN task_statuses[task_type] ELSE NoUpdate.before]
    /\ UNCHANGED <<global_processing_queue, global_task_lock, is_processing,
                   file_lock, order_data_file, wpc, pingState, moreVars>>
    /\ UNCHANGED <<statusVars, ledgerVars, consumerVars, workerLocals, workerHist>>
    /\ UNCHANGED <<tracker_lock, apc, held, seen, tpc>>

\* if task_type in self.task_statuses: self.task_statuses[task_type]["status"]
\* = status; for a key that is not there the with block is left, and so it
\* is when the test raises
UpdateWriteStatus ==
    /\ upc.step = "status"
    /\ IF upc.task_type \in DOMAIN task_statuses
       THEN /\ task_statuses' = [task_statuses EXCEPT
                                    ![upc.task_type].status = upc.status]
            /\ upc' = [upc EXCEPT !.step = "index"]
            /\ UNCHANGED status_lock
       ELSE /\ status_lock' = "free"
            /\ upc' = NoUpdate
            /\ UNCHANGED task_statuses
    /\ UNCHANGED <<global_processing_queue, global_task_lock, is_processing,
                   file_lock, order_data_file, wpc, pingState, moreVars, statusCalls>>
    /\ UNCHANGED <<ledgerVars, consumerVars, workerLocals, workerHist>>
    /\ UNCHANGED <<tracker_lock, apc, held, seen, tpc>>

\* self.task_statuses[task_type]["index"] += 1, then the with block is left
UpdateWriteIndex ==
    /\ upc.step = "index"
    /\ task_statuses' = [task_statuses EXCEPT ![upc.task_type].index = @ + 1]
    /\ statusCalls' = CountCall(statusCalls, upc.task_type)
    /\ status_lock' = "free"
    /\ upc' = NoUpdate
    /\ UNCHANGED <<global_processing_queue, global_task_lock, is_processing,
                   file_lock, order_data_file, wpc, pingState, moreVars>>
    /\ UNCHANGED <<ledgerVars, consumerVars, workerLocals, workerHist>>
    /\ UNCHANGED <<tracker_lock, apc, held, seen, tpc>>

\* the registry between its writer and the heartbeat, one statement at a time
RegistryNext ==
    \/ \E task_type \in RequestStarts, status \in UpdateStatuses :
           UpdateBegin(task_type, status)
    \/ UpdateWriteStatus
    \/ UpdateWriteIndex
    \/ HeartbeatBegin
    \/ \E outcome \in PostOutcomes : HeartbeatPost(outcome)
    \/ HeartbeatEnd

RegistrySpec == Init /\ [][RegistryNext]_vars

\* ------------------------------------ FileTracker.__init__, _load_data
\* the keys a stored tracker file may hold: two keys FileTracker.data starts
\* with and two it does not
StoredKeys == {"CASE", "BOX", "SHIP", "LABEL"}

StoredRecord(t) == [path |-> 1, status |-> "OK", task_type |-> t, details |-> "OK"]

\* the JSON objects found in the tracker file: any of the keys, each with an
\* empty list or a list of one record
StoredLedgers ==
    {[t \in S |-> IF t \in F THEN <<StoredRecord(t)>> ELSE <<>>] :
        S \in SUBSET StoredKeys, F \in SUBSET StoredKeys}

\* variant of load_data: the stored lists are not taken over
load_data_defaults(d, loaded_data) == d

\* _load_data on a JSON object: the keys of self.data that the object lacks
\* are added with an empty list, and self.data = loaded_data.  A value in
\* which "in" finds all five names is taken over as it is.
load_data(d, loaded_data) ==
    [t \in DOMAIN loaded_data \cup DOMAIN d |->
        IF t \in DOMAIN loaded_data THEN loaded_data[t] ELSE <<>>]

\* FileTracker.__init__ before _load_data: self.data holds the five empty
\* lists and the tracker file is whatever an earlier run left, a JSON
\* object, the array of the five names, nothing, or a content _load_data
\* raises on
LoadInit ==
    /\ tpc = "load"
    /\ tracker_file \in {Stored(d) : d \in StoredLedgers \cup {NamesList}}
                            \cup {NoFile, Unreadable}
    /\ InitRest

\* _load_data: os.path.exists decides.  The stored value replaces self.data;
\* an exception of json.load or of the key loop is logged and self.data is
\* kept; a missing file is created by _save_data, which ends in one of
\* SaveOutcomes and logs its own exception.
FileTrackerLoad(outcome) ==
    /\ tpc = "load"
    /\ tracker_file.kind # "missing" => outcome = "written"
    /\ tpc' = "ready"
    /\ data' = IF tracker_file.kind \in {"object", "array"}
               THEN load_data(data, tracker_file.lists) ELSE data
    /\ tracker_file' = IF tracker_file.kind = "missing"
                       THEN save_data(tracker_file, data, outcome)
                       ELSE tracker_file
    /\ saveFailed' = (tracker_file.kind = "missing" /\ outcome # "written")
    /\ UNCHANGED <<global_processing_queue, global_task_lock, is_processing,
                   status_lock, file_lock, order_data_file, wpc, pingState, moreVars>>
    /\ UNCHANGED <<statusVars, consumerVars, workerLocals, workerHist>>
    /\ UNCHANGED <<recorded, nAdds, addWarning, tracker_lock, apc, held, seen, upc>>

LoadNext == \E outcome \in SaveOutcomes : FileTrackerLoad(outcome)

LoadSpec == LoadInit /\ [][LoadNext]_vars

\* ------------------------------------------- the ledger across restarts
\* The process ends and is started again.  add_file runs in a daemon
\* thread, which the end of the main thread stops wherever it is: between
\* two calls, with the record inserted and the lock held, or after the
\* slice with _save_data still to come.  torn is the end inside _save_data
\* after open(TRACKER_FILE, 'w') has truncated the file and before the
\* document is flushed.  Nothing is logged and saveFailed stays as it is.
\* The new process has a new lock and no call under way;
\* FileTracker.__init__ sets self.data to the five empty lists and calls
\* _load_data on the file the run before left, whatever that is.  seen keeps
\* self.data, the object get_files() returns, as it was when the process
\* ended.
Restart(torn) ==
    /\ tpc = "ready"
    /\ torn => apc.step = "save"
    /\ seen' = data
    /\ data' = [t \in TaskTypes |-> <<>>]
    /\ tpc' = "load"
    /\ apc' = NoAdd
    /\ tracker_lock' = "free"
    /\ tracker_file' = IF torn THEN Unreadable ELSE tracker_file
    /\ UNCHANGED <<global_processing_queue, global_task_lock, is_processing,
                   status_lock, file_lock, order_data_file, wpc, pingState, moreVars>>
    /\ UNCHANGED <<statusVars, consumerVars, workerLocals, workerHist>>
    /\ UNCHANGED <<saveFailed, recorded, nAdds, addWarning, held, upc>>

RestartNext ==
    \/ \E outcome \in SaveOutcomes : FileTrackerLoad(outcome)
    \/ /\ tpc = "ready"
       /\ LedgerCalls(RestartTypes, MaxRestartAdds)
    \/ \E torn \in BOOLEAN : Restart(torn)

RestartSpec == LoadInit /\ [][RestartNext]_vars

\* --------------------------------------------------- the locks on their own
\* Every thread reduced to the lock operations of its code, in the order the
\* with blocks put them.  An operation is one edge of the thread's program:
\* "acquire" enters a with block, "release" leaves it, "step" is a branch
\* that touches no lock.
LockOp(from, op, lock, to) == [from |-> from, op |-> op, lock |-> lock, to |-> to]

\* global_task_worker with process_task_analysis, update_task_status,
\* get_current_order_data and FileTracker.add_file inlined.  The positions
\* "raised..." are the path of a START that is no string: the membership
\* test of update_task_status raises inside the with block at each of its
\* three calls (RUNNING, the except branch of process_task_analysis, the
\* except branch of the worker), the finally block runs and the thread
\* ends.  An add_file that raises on self.data[task_type] leaves its with
\* block for the except branch of process_task_analysis.
global_task_worker_locks ==
    { LockOp("get", "acquire", "global_task_lock", "enter"),
      LockOp("enter", "acquire", "processing_lock", "flag"),
      LockOp("flag", "release", "processing_lock", "running"),
      LockOp("running", "acquire", "status_lock", "running_locked"),
      LockOp("running_locked", "release", "status_lock", "snapshot"),
      LockOp("running_locked", "release", "status_lock", "raised"),
      LockOp("raised", "acquire", "status_lock", "raised_locked"),
      LockOp("raised_locked", "release", "status_lock", "raised_pta"),
      LockOp("raised_pta", "release", "global_task_lock", "raised_except"),
      LockOp("raised_except", "acquire", "status_lock", "raised_except_locked"),
      LockOp("raised_except_locked", "release", "status_lock", "raised_finally"),
      LockOp("raised_finally", "acquire", "processing_lock", "raised_finally_locked"),
      LockOp("raised_finally_locked", "release", "processing_lock", "ended"),
      LockOp("snapshot", "acquire", "file_lock", "snapshot_locked"),
      LockOp("snapshot_locked", "release", "file_lock", "analyze"),
      LockOp("analyze", "step", "none", "record"),
      LockOp("analyze", "step", "none", "terminal"),
      LockOp("analyze", "step", "none", "pta_except"),
      LockOp("record", "step", "none", "terminal"),
      LockOp("record", "acquire", "tracker_lock", "insert_locked"),
      LockOp("insert_locked", "release", "tracker_lock", "save"),
      LockOp("insert_locked", "release", "tracker_lock", "pta_except"),
      LockOp("save", "acquire", "tracker_lock", "save_locked"),
      LockOp("save_locked", "release", "tracker_lock", "terminal"),
      LockOp("terminal", "acquire", "status_lock", "terminal_locked"),
      LockOp("terminal_locked", "release", "status_lock", "publish"),
      LockOp("pta_except", "acquire", "status_lock", "pta_except_locked"),
      LockOp("pta_except_locked", "release", "status_lock", "publish"),
      LockOp("publish", "release", "global_task_lock", "finally"),
      LockOp("publish", "release", "global_task_lock", "except"),
      LockOp("except", "acquire", "status_lock", "except_locked"),
      LockOp("except_locked", "release", "status_lock", "finally"),
      LockOp("finally", "acquire", "processing_lock", "finally_locked"),
      LockOp("finally_locked", "release", "processing_lock", "get") }

\* variant of ping_status_worker_locks: the pings are posted under
\* global_task_lock as well, taken inside status_lock
ping_status_worker_locks_nested ==
    { LockOp("sleep", "acquire", "status_lock", "posting"),
      LockOp("posting", "acquire", "global_task_lock", "posting_permit"),
      LockOp("posting_permit", "release", "global_task_lock", "posted"),
      LockOp("posted", "release", "status_lock", "sleep") }

\* ping_status_worker: with self.status_lock around the for loop
ping_status_worker_locks ==
    { LockOp("sleep", "acquire", "status_lock", "posting"),
      LockOp("posting", "release", "status_lock", "sleep") }

\* the pika callbacks: create_nodered_callback reads is_processing under
\* processing_lock, process_web_message writes the file under file_lock
callback_locks ==
    { LockOp("idle", "step", "none", "task"),
      LockOp("task", "acquire", "processing_lock", "task_locked"),
      LockOp("task_locked", "release", "processing_lock", "idle"),
      LockOp("idle", "step", "none", "order"),
      LockOp("order", "acquire", "file_lock", "order_locked"),
      LockOp("order_locked", "release", "file_lock", "idle") }

\* the Flask routes: get_files and get_latest_files under FileTracker.lock
web_reader_locks ==
    { LockOp("idle", "acquire", "tracker_lock", "reading"),
      LockOp("reading", "release", "tracker_lock", "idle") }

LockPrograms ==
    [worker |-> global_task_worker_locks, ping |-> ping_status_worker_locks,
     consumer |-> callback_locks, web |-> web_reader_locks]

\* the operations a thread may do next
NextOps(th) == {o \in LockPrograms[th] : o.from = lpc[th]}

Holder(lock) ==
    CASE lock = "global_task_lock" -> global_task_lock
      [] lock = "processing_lock" -> processing_lock
      [] lock = "status_lock" -> status_lock
      [] lock = "file_lock" -> file_lock
      [] lock = "tracker_lock" -> tracker_lock

\* the one lock becomes v, the others stay
SetLock(lock, v) ==
    /\ global_task_lock' = IF lock = "global_task_lock" THEN v ELSE global_task_lock
    /\ processing_lock' = IF lock = "processing_lock" THEN v ELSE processing_lock
    /\ status_lock' = IF lock = "status_lock" THEN v ELSE status_lock
    /\ file_lock' = IF lock = "file_lock" THEN v ELSE file_lock
    /\ tracker_lock' = IF lock = "tracker_lock" THEN v ELSE tracker_lock

LockFrame ==
    /\ UNCHANGED <<global_processing_queue, is_processing, order_data_file, wpc,
                   pingState, handoffVars, queueVars>>
    /\ UNCHANGED <<statusVars, ledgerVars, consumerVars, workerLocals, workerHist>>
    /\ UNCHANGED <<apc, held, seen, upc, tpc>>

\* threading.Lock.acquire: the thread goes on when the lock is free
LockAcquire(th) ==
    /\ \E o \in NextOps(th) :
          /\ o.op = "acquire"
          /\ Holder(o.lock) = "free"
          /\ SetLock(o.lock, th)
          /\ lpc' = [lpc EXCEPT ![th] = o.to]
    /\ LockFrame

\* the with block is left
LockRelease(th) ==
    /\ \E o \in NextOps(th) :
          /\ o.op = "release"
          /\ SetLock(o.lock, "free")
          /\ lpc' = [lpc EXCEPT ![th] = o.to]
    /\ LockFrame

\* a branch between two with blocks
LockBranch(th) ==
    /\ \E o \in NextOps(th) :
          /\ o.op = "step"
          /\ lpc' = [lpc EXCEPT ![th] = o.to]
    /\ UNCHANGED <<global_task_lock, processing_lock, status_lock, file_lock,
                   tracker_lock>>
    /\ LockFrame

LockNext ==
    \E th \in Threads : LockAcquire(th) \/ LockRelease(th) \/ LockBranch(th)

LockSpec == Init /\ [][LockNext]_vars

\* ---------------------------------------- requests of several task types
\* the dispatcher, the Node-RED callbacks and the heartbeat, for task-start
\* messages of two task types that have an analyzer and one that has none
StageStarts == {"CASE", "COVER", "SHIP"}

StageNext == Worker \/ TaskIntake(StageStarts, MaxStageReq) \/ Ping

StageSpec == Init /\ [][StageNext]_vars

\* ------------------------------------------- the folding-to-final handoff
\* the dispatcher and the callbacks for FORDING and FINAL requests
HandoffWorker ==
    \/ WorkerGet
    \/ WorkerEnter
    \/ WorkerSetProcessing
    \/ ProcessRunning
    \/ ProcessSnapshot
    \/ \E cameraOpened \in BOOLEAN : AnalyzerInitCamera(cameraOpened)
    \/ \E path \in FoldingPaths : FoldingReturn(path)
    \/ \E path \in FinalPaths : FinalReturn(path)
    \/ ProcessExcept
    \/ \E exists \in BOOLEAN : ProcessRecord(exists)
    \/ ProcessAddFileSlice
    \/ \E outcome \in SaveOutcomes : ProcessSaveData(outcome)
    \/ \E exists \in BOOLEAN, response_ok \in BOOLEAN :
           ProcessUpload(exists, response_ok)
    \/ ProcessTerminal
    \/ \E delivered \in BOOLEAN : WorkerPublish(delivered)
    \/ WorkerExcept
    \/ WorkerFinally
    \/ WorkerTaskDone

HandoffNext ==
    \/ HandoffWorker
    \/ TaskIntake(HandoffTypes, MaxHandoffReq)
    \/ OrderIntake(MaxHandoffOrders)

HandoffSpec == Init /\ [][HandoffNext]_vars

\* ================================================================= claims
CurrentType == TaskName(task_request)

\* C1: at most one analyzer invocation is in progress in any reachable state,
\* and global_task_lock is held by the worker from the moment the analyzer is
\* about to be called until it has returned or raised.
C1_AtMostOneInFlight ==
    /\ analyzing <= 1
    /\ (analyzing > 0 \/ wpc \in {"analyze", "inspect"}) => global_task_lock = "worker"

\* C1 witness: an analyzer invocation is in progress while the callback has
\* put a further request in the queue and not yet acknowledged it.
C1_Witness ==
    /\ analyzing = 1
    /\ global_task_lock = "worker"
    /\ Len(global_processing_queue) >= 1
    /\ cpc = "ack"

\* C2: the messages are numbered in the order the consumer thread takes
\* them, which is the order of their put; the analyses start in that order,
\* none overtaking a request that was enqueued earlier.
C2_Fifo ==
    /\ \A i, j \in 1..Len(dispatched) : i < j => dispatched[i] < dispatched[j]
    /\ \A i \in 1..Len(dispatched), k \in 1..Len(global_processing_queue) :
           dispatched[i] < global_processing_queue[k].id

\* C2 witness: two requests were enqueued and the analysis of the second
\* has started after that of the first.
C2_Witness == dispatched = <<1, 2>> /\ wpc = "inspect"

\* C3: the permit is free whenever the worker waits on the queue, and once
\* the analyzer has raised for a request while request n is enqueued behind
\* it, the analysis of request n is eventually started.
C3_PermitReleasedUnderFailure ==
    /\ [](wpc = "get" => global_task_lock = "free")
    /\ \A n \in 1..MaxLiveReq :
          (raised /\ \E k \in 1..Len(global_processing_queue) :
                        global_processing_queue[k].id = n)
              ~> (n \in Range(dispatched))

\* C3 witness: the analyzer raised for the current request, the permit has
\* been released on that path and the next request waits in the queue.
C3_Witness ==
    /\ raised
    /\ wpc = "finally"
    /\ global_task_lock = "free"
    /\ Len(global_processing_queue) >= 1

\* C4: the index of every task type equals the number of update_task_status
\* calls made for it: it starts at 0 and each call adds exactly 1.
C4_StatusMonotonic ==
    \A t \in TaskTypes : task_statuses[t].index = statusCalls[t]

\* C4 witness: a type has gone through more than one request.
C4_Witness == \E t \in TaskTypes : task_statuses[t].index >= 4

\* the paths of a list of records
Paths(files) == [i \in 1..Len(files) |-> files[i].path]

\* the n most recent entries of a history kept oldest first, newest first
MostRecent(history, n) ==
    Reverse(SubSeq(history, Len(history) - Min(n, Len(history)) + 1, Len(history)))

\* C5: get_files(T), which takes FileTracker.lock, returns exactly the
\* min(M, K) most recently recorded records of T, newest first; its length
\* never exceeds K = MAX_TRACKED_FILES.
C5_LedgerBound ==
    tracker_lock = "free" =>
    \A t \in TaskTypes :
        /\ Len(get_files(data, t)[t]) <= MAX_TRACKED_FILES
        /\ Paths(get_files(data, t)[t]) = MostRecent(recorded[t], MAX_TRACKED_FILES)
        /\ \A i \in 1..Len(get_files(data, t)[t]) :
               get_files(data, t)[t][i].task_type = t

\* C5 witness: more than K records were made for one type, so the oldest
\* was evicted.
C5_Witness ==
    /\ Len(recorded["COVER"]) = MAX_TRACKED_FILES + 1
    /\ Len(get_files(data, "COVER")["COVER"]) = MAX_TRACKED_FILES

\* C6: every load of the order document, the dispatcher's and the
\* analyzer's own, yields the complete old or the complete new document.
C6_ContextAtomicity ==
    /\ snapshotRead.kind = "doc" =>
           snapshotRead.doc \in {snapshotRead.old, snapshotRead.new}
    /\ cameraRead.kind # "decode_error"
    /\ cameraRead.kind = "doc" =>
           cameraRead.doc \in {cameraRead.old, cameraRead.new}

\* C7: when the analyzer or the delivery raised for a request of a known
\* type, the type is in ERROR when the processing of the request ends, the
\* permit is free and the worker goes on to its finally branch.
C7_FailureSemantics ==
    (wpc \in {"finally", "task_done"} /\ HasAnalyzer(CurrentType) /\ (raised \/ sinkFailed)) =>
        /\ task_statuses[CurrentType].status = "ERROR"
        /\ global_task_lock = "free"

\* C7 witness: the analyzer raised for a request of a known type and its
\* processing has ended.
C7_Witness ==
    /\ wpc = "finally"
    /\ HasAnalyzer(CurrentType)
    /\ raised
    /\ ~sinkFailed

\* C8 as stated: after a failed delivery the type keeps the state and the
\* revision it had before the delivery attempt.
C8_SinkFailureKeepsStatus ==
    (wpc \in {"finally", "task_done"} /\ HasAnalyzer(CurrentType) /\ sinkFailed) =>
        task_statuses[CurrentType] = statusAtPublish

\* C8 amended: after a failed delivery the type is forced to ERROR with the
\* revision one above the one before the attempt; the delivery was attempted
\* once and the permit is free.
C8_SinkFailureForcesError ==
    /\ (wpc \in {"finally", "task_done"} /\ HasAnalyzer(CurrentType) /\ sinkFailed) =>
           task_statuses[CurrentType] =
               [status |-> "ERROR", index |-> statusAtPublish.index + 1]
    /\ (wpc \in {"except", "finally", "task_done"} /\ sinkFailed) =>
           attempts = 1 /\ global_task_lock = "free"

\* C8 witness: the result was OK, the type COMPLETED, and the delivery failed.
C8_Witness ==
    /\ wpc = "finally"
    /\ sinkFailed
    /\ HasAnalyzer(CurrentType)
    /\ sink.RESULT = "OK"
    /\ statusAtPublish.status = "COMPLETED"

\* the state changes of the per-type machine as C9 lists them
ListedTransitions ==
    {<<"IDLE", "RUNNING">>, <<"RUNNING", "COMPLETED">>, <<"RUNNING", "ERROR">>,
     <<"COMPLETED", "RUNNING">>, <<"ERROR", "RUNNING">>}

\* C9 as stated: every change of a type's state is one of the listed ones.
C9_StateMachine ==
    [][\A t \in TaskTypes :
          task_statuses'[t].status # task_statuses[t].status =>
              <<task_statuses[t].status, task_statuses'[t].status>>
                  \in ListedTransitions]_vars

\* C9 amended: every change of a type's state is one of the listed ones or
\* COMPLETED to ERROR (after a failed delivery); IDLE is never re-entered
\* and COMPLETED is entered from RUNNING only.
C9_StateMachineAmended ==
    [][\A t \in TaskTypes :
          task_statuses'[t].status # task_statuses[t].status =>
              <<task_statuses[t].status, task_statuses'[t].status>>
                  \in ListedTransitions \cup {<<"COMPLETED", "ERROR">>}]_vars

\* C9 witness: a type that was used before ran again, completed, and was
\* moved from COMPLETED to ERROR by a failed delivery.
C9_Witness ==
    \E t \in TaskTypes :
        /\ CurrentType = t
        /\ wpc = "finally"
        /\ sinkFailed
        /\ statusAtPublish.status = "COMPLETED"
        /\ task_statuses[t].status = "ERROR"
        /\ task_statuses[t].index >= 5

\* C10: a request whose task type has no analyzer never ends the dispatcher
\* thread: it is handed to the Result Sink exactly once, as a TaskResult
\* with RESULT ERROR and DETAILS "Unknown task", and the worker goes back
\* to the queue for the next request.
C10_UnknownTaskResult ==
    /\ wpc # "ended"
    /\ (wpc \in {"except", "finally", "task_done"} /\ ~HasAnalyzer(CurrentType)) =>
          /\ sink.NAME = CurrentType
          /\ sink.RESULT = "ERROR"
          /\ sink.DETAILS = "Unknown task"
          /\ attempts = 1

\* C10 witness: a SHIP request, dispatched after an earlier request, was
\* handed to the sink once.
C10_Witness ==
    /\ wpc = "finally"
    /\ task_request.START = "SHIP"
    /\ sink.DETAILS = "Unknown task"
    /\ sink.RESULT = "ERROR"
    /\ attempts = 1
    /\ dispatched = <<1, 2>>

\* C11 as stated: once a request of a type without analyzer has been
\* processed, task_statuses reports ERROR for that type.
C11_UnknownTypeStatusError ==
    (wpc \in {"finally", "task_done"} /\ task_request.id > 0 /\ ~HasAnalyzer(CurrentType)) =>
        /\ CurrentType \in DOMAIN task_statuses
        /\ task_statuses[CurrentType].status = "ERROR"

\* C11 amended: while a request of a type without analyzer is processed no
\* entry of task_statuses is created or changed; its keys stay the five
\* task types, and the ERROR is carried by the TaskResult only.
C11_UnknownTypeNoStatus ==
    [][(task_request.id > 0 /\ ~HasAnalyzer(CurrentType)) =>
          /\ task_statuses' = task_statuses
          /\ DOMAIN task_statuses' = TaskTypes]_vars

\* C11 witness: a SHIP request has been processed to its ERROR result, the
\* update_task_status calls for it were made, and SHIP has no entry.
C11_Witness ==
    /\ wpc = "finally"
    /\ task_request.START = "SHIP"
    /\ sink.RESULT = "ERROR"
    /\ "SHIP" \notin DOMAIN task_statuses
    /\ \A t \in TaskTypes : task_statuses[t].status # "ERROR"


\* C12: within one heartbeat cycle a failed delivery for one task type (a
\* response other than 200, or an exception raised by the post) does not
\* keep the remaining task types from being attempted: when the cycle is
\* over, a post has been made for every task type of the registry.
C12_HeartbeatFailureIsolation ==
    (ppc = "sleep" /\ cycles > 0) =>
        {pingLog[i].AI_TASK : i \in DOMAIN pingLog} = DOMAIN task_statuses

\* C13: an order-context update that lacks a required field is rejected
\* without requeue and leaves the stored order context unchanged; the stored
\* context, and the snapshot every task dispatch takes of it, is therefore
\* always the empty context or a complete one.
C13_MalformedOrderRejected ==
    /\ [][(nOrders' = nOrders + 1 /\ delivery'.method = "basic_nack") =>
            /\ ~delivery'.requeue
            /\ order_data_file' = order_data_file
            /\ committed' = committed
            /\ cpc' = "idle" /\ file_lock' = file_lock]_vars
    /\ [](cpc # "writing" => JsonLoad(order_data_file).doc \in WrittenDocs \cup {EmptyDoc})
    /\ [](snapshotRead.kind = "doc" => snapshotRead.doc \in WrittenDocs \cup {EmptyDoc})

\* C13 witness: a malformed update has been rejected after a complete one was
\* stored, and the task being dispatched sees the stored context.
C13_Witness ==
    /\ delivery = basic_nack(FALSE)
    /\ nOrders = 2
    /\ committed \in ValidDocs
    /\ JsonLoad(order_data_file).doc = committed
    /\ wpc = "analyze"
    /\ snapshotRead.doc = committed

\* C14: an add_file call with a path that does not exist is refused: it
\* leaves the history of every task type and the persisted ledger unchanged.
C14_ArtifactNotFound ==
    [][(nAdds' = nAdds + 1 /\ addWarning' = "File does not exist") =>
          /\ data' = data
          /\ tracker_file' = tracker_file]_vars

\* C14 witness: add_file was refused for a missing path on a ledger that
\* already holds records.
C14_Witness ==
    /\ addWarning = "File does not exist"
    /\ Len(data["COVER"]) = 2
    /\ Len(data["CASE"]) = 1
    /\ tracker_file = Stored(data)
    /\ nAdds > 3

\* C15: every TaskResult handed to the Result Sink has RESULT equal to OK or
\* ERROR, whatever the analyzer returned and when it raised.
C15_ResultDomain ==
    attempts > 0 => sink.RESULT \in {"OK", "ERROR"}

\* C15 as the code has it: RESULT is the status of the analyzer outcome (OK
\* or NG from an analyzer, ERROR from the unknown-task outcome) and ERROR
\* when the analyzer raised, so its domain is OK, NG, ERROR.
C15_ResultDomainAmended ==
    attempts > 0 =>
        /\ sink.RESULT \in {"OK", "NG", "ERROR"}
        /\ raised => sink.RESULT = "ERROR"
        /\ ~raised => sink.RESULT = analysis_result.status
        /\ ~HasAnalyzer(CurrentType) => sink.RESULT = "ERROR"

\* C15 witness: a TaskResult with RESULT NG was handed to the Result Sink and
\* the registry entry of its type was set to ERROR.
C15_Witness ==
    /\ attempts = 1
    /\ sink.NAME = "CASE"
    /\ sink.RESULT = "NG"
    /\ analysis_result.status = "NG"
    /\ statusAtPublish.status = "ERROR"

\* C16: upload_file is called for a task exactly when the analyzer outcome
\* carries a saved file and its status is NG, and at most once; an OK outcome
\* with a saved file is recorded in the ledger and not uploaded.
C16_NgOnlyEscalation ==
    /\ uploads <= 1
    /\ wpc \in {"get", "enter", "flag", "running", "snapshot", "analyze", "inspect",
                 "record", "add_file", "upload", "pta_except"} => uploads = 0
    /\ wpc = "upload" => (HasSavedFile(analysis_result) /\ analysis_result.status = "NG")
    /\ wpc \in {"terminal", "publish", "except", "finally", "task_done"} =>
          /\ uploads = 1 <=> (HasSavedFile(analysis_result)
                               /\ analysis_result.status = "NG")
          /\ uploads = 1 <=> "file_uploaded" \in DOMAIN analysis_result
          /\ (HasSavedFile(analysis_result) /\ analysis_result.status = "OK"
                  /\ addWarning = "none") =>
                 /\ uploads = 0
                 /\ data[CurrentType][1].path = task_request.id
                 /\ data[CurrentType][1].status = "OK"

\* C16 witness: the NG outcome of the current task carried a saved file and
\* was uploaded, after an OK outcome of an earlier task was recorded.
C16_Witness ==
    /\ wpc = "publish"
    /\ uploads = 1
    /\ analysis_result.status = "NG"
    /\ analysis_result.file_uploaded
    /\ Len(data["CASE"]) = 2
    /\ data["CASE"][1].status = "NG"
    /\ data["CASE"][2].status = "OK"

\* C17: every dequeued request is analysed at most once and its TaskResult
\* is handed to the Result Sink exactly once, whether the analyzer returned
\* or raised: no hand-over before the publish step, exactly one after it,
\* and a dequeued request is never on the queue again.
C17_ExactlyOnePublish ==
    /\ \A n \in 1..nTasks :
          Cardinality({i \in DOMAIN dispatched : dispatched[i] = n}) <= 1
    /\ \A k \in DOMAIN global_processing_queue :
          /\ global_processing_queue[k].id # task_request.id
          /\ \A i \in DOMAIN dispatched :
                 dispatched[i] # global_processing_queue[k].id
    /\ attempts = IF wpc \in {"except", "finally", "task_done"} THEN 1 ELSE 0
    /\ wpc \in {"except", "finally", "task_done"} => sink.NAME = CurrentType

\* C17 witness: the analyzer raised for the second request, its one
\* hand-over was made, and the first request is not analysed again.
C17_Witness ==
    /\ wpc = "finally"
    /\ raised
    /\ attempts = 1
    /\ task_request.id = 2
    /\ dispatched = <<1, 2>>
    /\ sink.RESULT = "ERROR"

\* the five task types as the specification names them
NamedTaskTypes == {"CASE", "BOX", "COVER", "FOLDING", "FINAL"}

\* C18: each of CASE, BOX, COVER, FOLDING, FINAL is routed to an analyzer of
\* its own, has a registry entry that is {IDLE, 0} until its first status
\* update, and has a ledger list; a request of such a type never gets the
\* unknown-task outcome.
C18_FixedTaskTypes ==
    /\ \A t \in NamedTaskTypes :
          /\ HasAnalyzer(t)
          /\ t \in DOMAIN task_statuses
          /\ t \in DOMAIN data
          /\ statusCalls[t] = 0 => task_statuses[t] = [status |-> "IDLE", index |-> 0]
    /\ (task_request.START \in NamedTaskTypes /\ wpc \in {"record", "terminal"}) =>
          analysis_result # UnknownOutcome

\* C19: the callback of a task-start message never waits for the worker:
\* it can start whenever the consumer thread is idle and each of its steps
\* can be taken wherever the worker is, permit held or not; its steps put
\* the request on the queue and then acknowledge the message without
\* touching the worker, the permit or the flag; and no step of the worker
\* changes what a message was answered with.
C19_NonBlockingIngestion ==
    /\ []((cpc = "idle" /\ nTasks < MaxReq) =>
             \A start \in RequestStarts : ENABLED NoderedCallback(start))
    /\ [](cpc = "check" => ENABLED CallbackCheck)
    /\ [](cpc = "put" => ENABLED CallbackPut)
    /\ [](cpc = "ack" => ENABLED CallbackAck)
    /\ [][(cpc = "put" /\ cpc' # cpc) =>
             /\ global_processing_queue' = Append(global_processing_queue, incoming)
             /\ cpc' = "ack"]_vars
    /\ [][(cpc = "ack" /\ cpc' # cpc) =>
             /\ delivery' = basic_ack
             /\ global_processing_queue' = global_processing_queue]_vars
    /\ [][(cpc \in {"check", "put", "ack"} /\ cpc' # cpc) =>
             /\ wpc' = wpc
             /\ global_task_lock' = global_task_lock
             /\ is_processing' = is_processing]_vars
    /\ [][delivery' # delivery => (nTasks' # nTasks \/ nOrders' # nOrders \/ cpc' # cpc)]_vars

\* C19 witness: while a task is in flight and holds the permit, a request of
\* an unknown type was enqueued behind one of a known type and acknowledged.
C19_Witness ==
    /\ global_task_lock = "worker"
    /\ wpc = "inspect"
    /\ nTasks = 2
    /\ Len(global_processing_queue) = 1
    /\ global_processing_queue[1].START = "SHIP"
    /\ task_request.START = "CASE"
    /\ cpc = "idle"
    /\ delivery = basic_ack

\* C20: a well-formed task-start message without START fails validation: it
\* is never put on the queue and never dispatched.
C20_StartRequired ==
    /\ \A k \in DOMAIN global_processing_queue :
          global_processing_queue[k].START # "<absent>"
    /\ task_request.START # "<absent>"

\* C20 as the code has it: a task-start message without START is put on the
\* queue and acknowledged like any other; it is dispatched under the name
\* UNKNOWN_TASK, gets the unknown-task outcome and an ERROR TaskResult, and
\* changes no registry entry.
C20_StartDefaulted ==
    /\ [][(incoming.START = "<absent>" /\ cpc = "put" /\ cpc' # cpc) =>
             global_processing_queue' = Append(global_processing_queue, incoming)]_vars
    /\ [][(incoming.START = "<absent>" /\ cpc = "ack" /\ cpc' # cpc) =>
             delivery' = basic_ack]_vars
    /\ []((task_request.START = "<absent>" /\ wpc \in {"except", "finally", "task_done"}) =>
             /\ sink.NAME = "UNKNOWN_TASK"
             /\ sink.RESULT = "ERROR"
             /\ sink.DETAILS = "Unknown task"
             /\ statusAtPublish = NoStatus)
    /\ [][task_request.START = "<absent>" => task_statuses' = task_statuses]_vars

\* C20 witness: the TaskResult of a request without START has been handed to
\* the Result Sink.
C20_Witness ==
    /\ task_request.START = "<absent>"
    /\ wpc = "finally"
    /\ sink.NAME = "UNKNOWN_TASK"
    /\ sink.DETAILS = "Unknown task"
    /\ delivery = basic_ack

\* the positions at which the worker's next statement is update_task_status
StatusUpdateSteps == {"running", "terminal", "pta_except", "except"}

\* C21: the dispatcher's update_task_status is never kept waiting on
\* status_lock while the heartbeat worker is delivering to PING_API.
C21_WriterNotBlockedByDelivery ==
    ~(ppc = "pinging" /\ status_lock = "ping" /\ wpc \in StatusUpdateSteps)

\* C22: with the dispatcher worker scheduled fairly, every enqueued request
\* is eventually dequeued and processed, and the hand-over of its TaskResult
\* eventually attempted, whatever the heartbeat worker and the producers do.
C22_DispatchLiveness ==
    \A n \in 1..MaxLiveReq :
        (\E k \in DOMAIN global_processing_queue : global_processing_queue[k].id = n)
            ~> (task_request.id = n /\ wpc = "finally" /\ attempts = 1
                /\ (HasAnalyzer(CurrentType) =>
                       task_statuses[CurrentType].status \in {"COMPLETED", "ERROR"}))

\* C24: the order context the analyzer evaluates against is the snapshot the
\* dispatcher took for the request, the one ORDER_NO of the TaskResult is
\* taken from.
C24_SameSnapshot ==
    /\ cameraRead.kind = "doc" => cameraRead.doc = snapshotRead.doc
    /\ (attempts > 0 /\ ~raised) =>
          sink.ORDER_NO = DictGet(snapshotRead.doc, "ORDER_NO", "UNKNOWN")

\* C25: when the analyzer has returned for a request of a type T that has an
\* analyzer, the step that builds the TaskResult sets T to COMPLETED if and
\* only if RESULT is OK and to ERROR otherwise, and adds one to the index.
C25_TerminalMatchesResult ==
    [][(wpc = "terminal" /\ wpc' = "publish" /\ HasAnalyzer(CurrentType)) =>
          /\ task_statuses'[CurrentType].index = task_statuses[CurrentType].index + 1
          /\ task_statuses'[CurrentType].status \in {"COMPLETED", "ERROR"}
          /\ task_statuses'[CurrentType].status = "COMPLETED" <=> result'.RESULT = "OK"
          /\ \A t \in TaskTypes \ {CurrentType} : task_statuses'[t] = task_statuses[t]]_vars

\* C25 witness: the second CASE request ended with RESULT NG and CASE was set
\* to ERROR with its fourth revision.
C25_Witness ==
    /\ wpc = "publish"
    /\ ~raised
    /\ CurrentType = "CASE"
    /\ result.RESULT = "NG"
    /\ task_statuses["CASE"] = [status |-> "ERROR", index |-> 4]

\* C26: for a request of a type T that has an analyzer the steps come in the
\* order permit, RUNNING, snapshot, analyzer, ledger record and upload,
\* terminal status, hand-over, release: each step finds the effects of the
\* earlier ones in place and none of the later ones, and the permit is held
\* from the first to the last.  (A request whose START has no hash never
\* gets to the hand-over; the permit is released without one.)
C26_StepOrdering ==
    /\ wpc \in {"flag", "running", "snapshot", "analyze", "inspect", "record",
                 "add_file", "upload", "pta_except", "terminal", "publish"} =>
          global_task_lock = "worker"
    /\ (task_request.id > 0 /\ global_task_lock = "free") =>
          (wpc = "enter" \/ attempts = 1 \/ UpdateRaises(CurrentType))
    /\ HasAnalyzer(CurrentType) =>
          /\ wpc \in {"snapshot", "analyze", "inspect", "record", "add_file",
                       "upload", "terminal"} =>
                task_statuses[CurrentType].status = "RUNNING"
          /\ wpc \in {"flag", "running"} =>
                (snapshotRead.kind = "none"
                 /\ task_statuses[CurrentType].status # "RUNNING")
          /\ (analyzing > 0 \/ cameraRead.kind # "none") => snapshotRead.kind = "doc"
          /\ wpc \in {"running", "snapshot", "analyze"} =>
                (analyzing = 0 /\ analysis_result = NoOutcome)
          /\ (uploads > 0 \/ \E i \in DOMAIN data[CurrentType] :
                                 data[CurrentType][i].path = task_request.id) =>
                /\ analysis_result # NoOutcome
                /\ analyzing = 0
          /\ wpc \in {"inspect", "record"} =>
                (uploads = 0 /\ \A i \in DOMAIN data[CurrentType] :
                                   data[CurrentType][i].path # task_request.id)
          /\ wpc = "add_file" =>
                (uploads = 0 /\ data[CurrentType][1].path = task_request.id)
          /\ wpc = "upload" => (uploads = 0 /\ apc = NoAdd)
          /\ uploads > 0 => apc = NoAdd
          /\ wpc \in {"add_file", "upload", "terminal"} => result = NoResult
          /\ attempts = 0 => sink = NoResult
          /\ attempts > 0 =>
                /\ statusAtPublish.status \in {"COMPLETED", "ERROR"}
                /\ sink = result

\* C26 witness: a request went through every step, upload included, and the
\* permit was released after the hand-over.
C26_Witness ==
    /\ wpc = "finally"
    /\ HasAnalyzer(CurrentType)
    /\ uploads = 1
    /\ attempts = 1
    /\ data[CurrentType] # <<>>
    /\ data[CurrentType][1].path = task_request.id
    /\ statusAtPublish.status = "ERROR"
    /\ snapshotRead.kind = "doc"
    /\ global_task_lock = "free"

\* C28 as stated: every change of task_statuses is a step of the dispatcher
\* worker, taken while it holds global_task_lock.
C28_SingleWriter ==
    [][task_statuses' # task_statuses =>
          /\ wpc' # wpc
          /\ ppc' = ppc /\ cpc' = cpc /\ nTasks' = nTasks /\ nOrders' = nOrders
          /\ global_task_lock = "worker"]_vars

\* C28 as the code has it: every change of task_statuses is a step of the
\* dispatcher worker; the worker holds global_task_lock at each of them but
\* the ERROR update after a failed hand-over, which it makes after the
\* with block has released the lock.
C28_SingleWriterAmended ==
    [][task_statuses' # task_statuses =>
          /\ wpc' # wpc
          /\ ppc' = ppc /\ cpc' = cpc /\ nTasks' = nTasks /\ nOrders' = nOrders
          /\ \/ global_task_lock = "worker"
             \/ (wpc = "except" /\ sinkFailed /\ global_task_lock = "free")]_vars

\* C28 witness: the worker has changed the registry after releasing the lock
\* while a heartbeat cycle had run and further messages had been ingested.
C28_Witness ==
    /\ wpc = "finally"
    /\ sinkFailed
    /\ global_task_lock = "free"
    /\ HasAnalyzer(CurrentType)
    /\ task_statuses[CurrentType].index = statusAtPublish.index + 1
    /\ nTasks = 2
    /\ nOrders = 1

\* C29: the context a task dispatch reads is, field for field, the most
\* recent order update that passed validation, or the empty context when
\* there was none; ORDER_NO of the TaskResult is taken from it and is
\* UNKNOWN for the empty context.
C29_LatestValidWins ==
    /\ [][(wpc = "snapshot" /\ wpc' = "analyze") =>
             /\ snapshotRead'.doc = accepted
             /\ order_data' = accepted]_vars
    /\ [](accepted \in ValidDocs \cup {EmptyDoc})
    /\ []((attempts > 0 /\ ~raised) =>
             sink.ORDER_NO = IF order_data = EmptyDoc THEN "UNKNOWN"
                             ELSE order_data["ORDER_NO"])

\* C29 witness: two order updates were consumed, the context of ORD2 is the
\* accepted one and the TaskResult of a task dispatched after it carries it.
C29_Witness ==
    /\ nOrders = 2
    /\ accepted = AsDoc(OrderItemsLine("ORD2"))
    /\ wpc = "finally"
    /\ ~raised
    /\ order_data = accepted
    /\ sink.ORDER_NO = "ORD2"


\* C23: a reader of get_files or get_latest_files that runs beside add_file,
\* the reading of the returned value included, never finds a task type's list
\* with more than MAX_TRACKED_FILES records (the new record inserted and the
\* oldest not yet evicted).
C23_LedgerReadAtomicity ==
    \A t \in DOMAIN seen : Len(seen[t]) <= MAX_TRACKED_FILES

\* the entries task_statuses[t] may hold between two update_task_status
\* calls: outside a call the entry itself, during a call the entry before it
\* and the entry after it
WholeEntries(t) ==
    IF upc.step # "idle" /\ upc.task_type = t
    THEN {upc.before, [status |-> upc.status, index |-> upc.before.index + 1]}
    ELSE {task_statuses[t]}

\* C27: the heartbeat never finds a task type in the middle of a transition:
\* no update_task_status call is under way while the heartbeat holds
\* status_lock, and the status_info of every ping is the entry as it was
\* before or after a call, never the new status with the old index or the old
\* status with the new index.
C27_SnapshotAtomicity ==
    /\ [](status_lock = "ping" => upc.step = "idle")
    /\ [][Len(pingLog') = Len(pingLog) + 1 =>
            pingLog'[Len(pingLog')].status_info \in WholeEntries(Head(pingQueue))]_vars

\* C27 witness: a ping has found a type that a complete transition has taken
\* to another status and another index.
C27_Witness ==
    \E i \in DOMAIN pingLog :
        /\ pingLog[i].status_info.index > 0
        /\ pingLog[i].status_info.status # "IDLE"
        /\ pingLog[i].status_info = task_statuses[pingLog[i].AI_TASK]

\* C30: after the ledger is loaded from the tracker file at startup, entries
\* stored under a key that is not one of the five task types are gone: the
\* keys of FileTracker.data are exactly the five task types.
C30_LoadFiltering ==
    tpc = "ready" => DOMAIN data = TaskTypes

\* C31: the ledger a restarted process loads is, for every task type, the
\* history get_files returned before the process ended (same records, same
\* order), and a process started with no tracker file has five empty lists.
C31_RestartRoundTrip ==
    [][(tpc = "load" /\ tpc' = "ready") =>
          /\ seen # NoLists =>
                /\ data' = seen
                /\ \A t \in DOMAIN seen : get_files(data', t) = get_files(seen, t)
          /\ tracker_file = NoFile => data' = [t \in TaskTypes |-> <<>>]]_vars

\* the locks a thread is waiting to acquire, and the threads holding them
Wants(th) == {o.lock : o \in {x \in NextOps(th) : x.op = "acquire"}}
Blockers(th) == {Holder(l) : l \in Wants(th)} \ {"free"}

\* the threads a thread waits for, directly or through other waiting threads
RECURSIVE WaitsFor(_, _)
WaitsFor(ths, n) ==
    IF n = 0 THEN ths
    ELSE WaitsFor(ths \cup UNION {Blockers(x) : x \in ths}, n - 1)

\* C32: in every interleaving of the dispatcher worker, the heartbeat worker,
\* the ingestion callbacks and a ledger reader, no thread waits for a lock in
\* a cycle of waiting threads, no thread acquires a lock it already holds,
\* and a with block is left only by the thread that holds its lock.
C32_DeadlockFreedom ==
    /\ \A th \in Threads : th \notin WaitsFor(Blockers(th), Cardinality(Threads))
    /\ \A th \in Threads : \A l \in Wants(th) : Holder(l) # th
    /\ \A th \in Threads : \A o \in NextOps(th) :
          o.op = "release" => Holder(o.lock) = th

\* C32 witness: the worker, holding global_task_lock, waits for status_lock
\* while the heartbeat holds it, and a ledger reader holds FileTracker.lock.
C32_Witness ==
    /\ global_task_lock = "worker"
    /\ Blockers("worker") = {"ping"}
    /\ tracker_lock = "web"

\* the task types task_statuses reports as RUNNING
RunningTypes == {t \in DOMAIN task_statuses : task_statuses[t].status = "RUNNING"}

\* C33: at most one task type is RUNNING in any reachable state, and no task
\* type is RUNNING while global_task_lock is free.
C33_RunningNotLeftBehind ==
    /\ Cardinality(RunningTypes) <= 1
    /\ global_task_lock = "free" => RunningTypes = {}

\* C33 witness: COVER is RUNNING under the permit after a CASE request went
\* through RUNNING and ended in ERROR.
C33_Witness ==
    /\ RunningTypes = {"COVER"}
    /\ global_task_lock = "worker"
    /\ task_statuses["CASE"].status = "ERROR"
    /\ task_statuses["CASE"].index >= 2

\* C34: a step taken while a request of task type T is processed changes no
\* entry of task_statuses other than T's; the keys stay the five task types,
\* so a request of a type without entry adds none and changes no index.
C34_RegistryFrame ==
    [][/\ DOMAIN task_statuses' = TaskTypes
       /\ \A t \in TaskTypes \ {CurrentType} : task_statuses'[t] = task_statuses[t]
       /\ CurrentType \notin TaskTypes => statusCalls' = statusCalls]_vars

\* C34 witness: a COVER request has been processed to its end while the entry
\* CASE got from an earlier request is as that request left it and the
\* other three entries are as they were created.
C34_Witness ==
    /\ wpc = "finally"
    /\ CurrentType = "COVER"
    /\ task_statuses["COVER"].index = 2
    /\ task_statuses["CASE"] = [status |-> "COMPLETED", index |-> 2]
    /\ \A t \in TaskTypes \ {"CASE", "COVER"} : task_statuses[t] = [status |-> "IDLE", index |-> 0]

\* C35: a FINAL execution reads __folding_value as the most recently
\* completed FORDING execution left it (unset if none has run), never the
\* reset of a FORDING execution in progress; and once FINAL has saved its
\* frame, its outcome is OK exactly when the last FORDING execution ended NG
\* after saving its frame.
C35_FoldingHandoff ==
    /\ (CurrentType = "FINAL" /\ wpc \in {"inspect", "record"}) =>
           folding_value = lastFolding.value
    /\ (CurrentType = "FINAL" /\ wpc = "record" /\ HasSavedFile(analysis_result)) =>
           (analysis_result.status = "OK" <=>
               (lastFolding.ran /\ lastFolding.status = "NG" /\ lastFolding.captured))

\* C36: an add_file call that is accepted puts one record at the head of the
\* list of its task type, cuts that list to its first MAX_TRACKED_FILES
\* records and leaves the list of every other task type as it was, in each of
\* its steps; a call with a task type that is not a key of the ledger
\* changes nothing and is over at once; no step adds or removes a key.
C36_LedgerFrame ==
    /\ [][DOMAIN data' = DOMAIN data]_vars
    /\ [][nAdds' = nAdds + 1 =>
             /\ addWarning' = "none" =>
                   \E t \in DOMAIN data :
                       /\ apc'.task_type = t
                       /\ Head(data'[t]).path = nAdds'
                       /\ Head(data'[t]).task_type = t
                       /\ Tail(data'[t]) = data[t]
                       /\ \A u \in DOMAIN data \ {t} : data'[u] = data[u]
             /\ addWarning' = "Unknown task type" =>
                   data' = data /\ tracker_file' = tracker_file /\ apc' = NoAdd]_vars
    /\ [][(apc.step = "slice" /\ apc' # apc) =>
             /\ data'[apc.task_type] = Take(data[apc.task_type], MAX_TRACKED_FILES)
             /\ \A u \in DOMAIN data \ {apc.task_type} : data'[u] = data[u]]_vars
    /\ [][(apc.step = "save" /\ apc' # apc) => data' = data]_vars

\* C36 witness: the sixth call put a record at the head of the full CASE
\* list while COVER holds the one record an earlier call gave it.
C36_Witness ==
    /\ addWarning = "none"
    /\ Len(recorded["CASE"]) = 5
    /\ Head(data["CASE"]).path = 6
    /\ Len(data["COVER"]) = 1
    /\ data["COVER"][1].path < 5

\* C37: is_processing is True all through an analyzer call and False whenever
\* the worker is at global_processing_queue.get(), whichever way the request
\* before ended, the end of the worker thread included; task_done has been
\* called once for every request taken off the queue, so the unfinished
\* tasks are the queued requests and the one in hand.
C37_ProcessingFlag ==
    /\ (analyzing > 0 \/ wpc \in {"analyze", "inspect"}) => is_processing
    /\ wpc \in {"task_done", "get", "ended"} => ~is_processing
    /\ unfinished_tasks = Len(global_processing_queue)
                            + (IF wpc \in {"get", "ended"} THEN 0 ELSE 1)

\* C37 witness: the worker is back at the queue with the flag reset after a
\* CASE request whose delivery to the sink failed and at least one other
\* request; nothing is unfinished.
C37_Witness ==
    /\ wpc = "get"
    /\ ~is_processing
    /\ unfinished_tasks = 0
    /\ nTasks >= 2
    /\ task_statuses["CASE"] = [status |-> "ERROR", index |-> 3]

====
